---- MODULE Spec2Model ----
(***************************************************************************)
(* Model of the content lifecycle of the XHS auto-publisher:               *)
(*   src/src/utils/helpers.py    validate_content, generate_content_hash,  *)
(*                               is_valid_image                            *)
(*   src/src/content/database.py Database (the content table)              *)
(*   src/src/content/manager.py  ContentManager (dedup index, transitions) *)
(*                                                                         *)
(*   src/src/publisher/publisher.py  XHSPublisher.publish_with_retry       *)
(*   src/src/generator/workflow.py   ContentWorkflow (the six-step run)    *)
(*   src/src/ui/api.py               publish_content, _restore_session     *)
(*   src/src/auth/xhs_auth.py        XHSAuthManager (driver, login state)  *)
(*                                                                         *)
(* The specifications share the variables:                                 *)
(*   Spec          the status machine over the content table               *)
(*   SpecDedup     creation, deletion and the dedup index                  *)
(*   SpecValidate  the pure function validate_content on bounded inputs    *)
(*   SpecRetry     publish_with_retry over a stub publish                  *)
(*   SpecFlow      the runs of the workflow, and the publish endpoint      *)
(*   SpecAuth      the session manager                                     *)
(***************************************************************************)
EXTENDS Integers, Sequences, FiniteSets, TLC

VARIABLES
    rows,      \* the content table: id -> row (Database, table "content")
    nextId,    \* the next AUTOINCREMENT id of the table
    clock,     \* the number of timestamps datetime.now() that were stored in published_at
    hashes,    \* ContentManager._content_hashes
    last,      \* the last call made on the ContentManager and what it returned
    vTitle,    \* validate_content: argument title
    vBody,     \* validate_content: argument body
    vResult,   \* validate_content: the returned (is_valid, error_message), once called
    retry,     \* XHSPublisher.publish_with_retry: its arguments, the stub publish and its calls
    flow,      \* ContentWorkflow: the steps, the position of the run, what the run did
    auth,      \* XHSAuthManager: the driver, the cached login state, the last call
    pub        \* XHSPublisher: the call under examination, its inputs and what it did

vars == <<rows, nextId, clock, hashes, last, vTitle, vBody, vResult, retry, flow, auth, pub>>

(***************************************************************************)
(* Strings.  A string is a sequence of blocks <<w, k>>: the word w written *)
(* k times (k >= 1), adjacent blocks having different words.  The words    *)
(* are the one-character words "a", ":", " ", "\n" and the two-character   *)
(* word "xy", whose characters occur in no other word: every string over   *)
(* these words has exactly one such block sequence, so equality of block   *)
(* sequences is equality of strings, and a maximal run of one character is *)
(* a block of a one-character word.                                        *)
(***************************************************************************)
EmptyStr == << >>

Blk(w, k) == << <<w, k>> >>

WordLen(w) == IF w = "xy" THEN 2 ELSE 1

\* len(s)
RECURSIVE StrLen(_)
StrLen(s) == IF s = << >> THEN 0 ELSE WordLen(s[1][1]) * s[1][2] + StrLen(Tail(s))

\* s + t
Concat(s, t) ==
    IF s = << >> THEN t
    ELSE IF t = << >> THEN s
    ELSE IF s[Len(s)][1] = t[1][1]
         THEN SubSeq(s, 1, Len(s) - 1) \o Blk(t[1][1], s[Len(s)][2] + t[1][2]) \o Tail(t)
         ELSE s \o t

\* the characters str.strip() removes
Whitespace == {" ", "\n"}

RECURSIVE LStrip(_)
LStrip(s) == IF s # << >> /\ s[1][1] \in Whitespace THEN LStrip(Tail(s)) ELSE s

RECURSIVE RStrip(_)
RStrip(s) ==
    IF s # << >> /\ s[Len(s)][1] \in Whitespace THEN RStrip(SubSeq(s, 1, Len(s) - 1)) ELSE s

\* s.strip()
Strip(s) == RStrip(LStrip(s))

\* helpers.py:167  len(title) > 100
MaxTitleLen == 100

\* helpers.py:174  len(body) > 10000
MaxBodyLen == 10000

\* helpers.py:179  the repetition count of r'(.)\1{10,}'
SpamRepeat == 10

\* helpers.py:180  the characters of r'[\u0000-\u001F]' among the words
ControlChars == {"\n"}

\* re.search(r'(.)\1{10,}', s): one character other than a newline, followed by
\* at least SpamRepeat more copies of it
RepeatedCharMatch(s) ==
    \E i \in 1..Len(s) :
        /\ WordLen(s[i][1]) = 1
        /\ s[i][1] # "\n"
        /\ s[i][2] >= 1 + SpamRepeat

\* re.search(r'[\u0000-\u001F]', s)
ControlCharMatch(s) == \E i \in 1..Len(s) : s[i][1] \in ControlChars

\* helpers.py:178-185  the loop over spam_patterns, searching title + body
SpamMatch(title, body) ==
    \/ RepeatedCharMatch(Concat(title, body))
    \/ ControlCharMatch(Concat(title, body))

\* publisher.py:1059  [p.strip() for p in body.split('\n') if p.strip()]: the
\* number of lines of s that hold a character other than white space, counted
\* by the first such block of each line
body_paragraphs(s) ==
    Cardinality({i \in 1..Len(s) :
        /\ s[i][1] \notin Whitespace
        /\ \A j \in 1..(i - 1) :
             (\A k \in j..i : s[k][1] # "\n") => s[j][1] \in Whitespace})

Valid == [ok |-> TRUE, error |-> ""]

Invalid(msg) == [ok |-> FALSE, error |-> msg]

\* helpers.py:152-187
validate_content(title, body) ==
    IF title = EmptyStr \/ StrLen(Strip(title)) = 0
    THEN Invalid("Title cannot be empty")
    ELSE IF StrLen(title) > MaxTitleLen
    THEN Invalid("Title too long (max 100 characters)")
    ELSE IF body = EmptyStr \/ StrLen(Strip(body)) = 0
    THEN Invalid("Body cannot be empty")
    ELSE IF StrLen(body) > MaxBodyLen
    THEN Invalid("Body too long (max 10000 characters)")
    ELSE IF SpamMatch(title, body)
    THEN Invalid("Content contains invalid patterns")
    ELSE Valid

\* hashlib.md5(...).hexdigest(), taken to be collision free: the digest of a
\* string is the string, tagged
md5(s) == <<"md5", s>>

\* helpers.py:90-102  md5 of f"{title}:{body}"
generate_content_hash(title, body) == md5(Concat(Concat(title, Blk(":", 1)), body))

(***************************************************************************)
(* Image file names: <<stem, suffix>>, suffix being what follows the last  *)
(* dot of the name as written ("" when the name has no dot).               *)
(***************************************************************************)
\* str.lower() on the suffixes used
Lower(x) == CASE x = "PNG" -> "png" [] x = "JPG" -> "jpg" [] OTHER -> x

\* helpers.py:123-134
get_image_extension(filename) == Lower(filename[2])

\* helpers.py:147
valid_extensions == {"jpg", "jpeg", "png", "gif", "webp", "bmp"}

\* helpers.py:137-149
is_valid_image(filename) == get_image_extension(filename) \in valid_extensions

(***************************************************************************)
(* The content table (Database).  A row keeps the columns the manager's    *)
(* transitions read or write: title, body, status, published_at and        *)
(* error_message.  created_at is datetime.now() at creation, so rows are   *)
(* ordered by created_at as they are by id.                                *)
(***************************************************************************)
\* database.py:12-18
ContentStatus == {"pending", "approved", "published", "rejected", "failed"}

\* database.py:251  published_at = None
NoTimestamp == 0

\* database.py:247  error_message = None
NoMessage == "<None>"

\* database.py:217  get_content of an id that has no row
NoRow == [title |-> EmptyStr, body |-> EmptyStr, status |-> "<no row>",
          published_at |-> NoTimestamp, error_message |-> NoMessage]

\* database.py:194-210  INSERT: published_at and error_message stay NULL
db_create_content(r, id, title, body, status) ==
    [i \in DOMAIN r \cup {id} |->
        IF i = id
        THEN [title |-> title, body |-> body, status |-> status,
              published_at |-> NoTimestamp, error_message |-> NoMessage]
        ELSE r[i]]

\* database.py:212-217
get_content(r, id) == IF id \in DOMAIN r THEN r[id] ELSE NoRow

\* database.py:219-241  the ids of the `limit` most recently created rows
get_all_content(r, limit) ==
    {i \in DOMAIN r : Cardinality({j \in DOMAIN r : j > i}) < limit}

\* update_status writing published_at only when publishing, leaving the column
\* alone on every other transition
update_status_keeps_published_at(r, id, status, error_message, now) ==
    IF id \in DOMAIN r
    THEN [rows |-> [r EXCEPT ![id] =
                      [@ EXCEPT !.status = status,
                                !.published_at =
                                    IF status = "published" THEN now ELSE @,
                                !.error_message = error_message]],
          ok |-> TRUE]
    ELSE [rows |-> r, ok |-> FALSE]

\* database.py:243-258  UPDATE ... SET status, published_at, error_message WHERE id;
\* returns conn.total_changes > 0.  `now` is datetime.now()
update_status(r, id, status, error_message, now) ==
    IF id \in DOMAIN r
    THEN [rows |-> [r EXCEPT ![id] =
                      [@ EXCEPT !.status = status,
                                !.published_at =
                                    IF status = "published" THEN now ELSE NoTimestamp,
                                !.error_message = error_message]],
          ok |-> TRUE]
    ELSE [rows |-> r, ok |-> FALSE]

\* database.py:260-265
db_delete_content(r, id) ==
    [rows |-> [i \in DOMAIN r \ {id} |-> r[i]], ok |-> id \in DOMAIN r]

(***************************************************************************)
(* ContentManager: each method as the state it leaves and what it returns. *)
(***************************************************************************)
\* manager.py:22  get_all_content(limit=1000)
LoadLimit == 1000

\* manager.py:19-28  the set the constructor loads; left empty when the query raises
load_content_hashes(r, loadFails) ==
    IF loadFails THEN {}
    ELSE {generate_content_hash(r[i].title, r[i].body) : i \in get_all_content(r, LoadLimit)}

\* manager.py:95-114
create_content(r, id, title, body) == db_create_content(r, id, title, body, "pending")

\* manager.py:124-129
approve_content(r, id, now) == update_status(r, id, "approved", NoMessage, now)

\* manager.py:131-140
reject_content(r, id, reason, now) == update_status(r, id, "rejected", reason, now)

\* manager.py:142-147
mark_published(r, id, now) == update_status(r, id, "published", NoMessage, now)

\* mark_failed storing the error without the status
mark_failed_message_only(r, id, error, now) ==
    IF id \in DOMAIN r
    THEN [rows |-> [r EXCEPT ![id] = [@ EXCEPT !.error_message = error]], ok |-> TRUE]
    ELSE [rows |-> r, ok |-> FALSE]

\* manager.py:149-158
mark_failed(r, id, error, now) == update_status(r, id, "failed", error, now)

\* retry_failed_content without the test of the current status
retry_failed_content_unguarded(r, id, now) ==
    update_status(r, id, "approved", NoMessage, now)

\* manager.py:204-221
retry_failed_content(r, id, now) ==
    IF get_content(r, id) = NoRow \/ get_content(r, id).status # "failed"
    THEN [rows |-> r, ok |-> FALSE]
    ELSE update_status(r, id, "approved", NoMessage, now)

\* bulk_approve counting every id of the list
RECURSIVE bulk_approve_counts_all(_, _, _, _, _)
bulk_approve_counts_all(r, ids, i, count, now) ==
    IF i > Len(ids) THEN [rows |-> r, count |-> count]
    ELSE bulk_approve_counts_all(approve_content(r, ids[i], now).rows, ids, i + 1,
                                 count + 1, now)

\* manager.py:223-238  the loop over content_ids from position i on
RECURSIVE bulk_approve(_, _, _, _, _)
bulk_approve(r, ids, i, count, now) ==
    IF i > Len(ids) THEN [rows |-> r, count |-> count]
    ELSE LET res == approve_content(r, ids[i], now)
         IN  bulk_approve(res.rows, ids, i + 1,
                          IF res.ok THEN count + 1 ELSE count, now)

\* manager.py:168-179
delete_content(r, h, id) ==
    LET content == get_content(r, id)
        res == db_delete_content(r, id)
    IN  [rows |-> res.rows,
         hashes |-> IF res.ok /\ content # NoRow
                    THEN h \ {generate_content_hash(content.title, content.body)}
                    ELSE h,
         ok |-> res.ok]

\* validate_and_create returning (None, error)
NoId == 0

\* manager.py:59-65  the first image is_valid_image refuses, 0 when there is none
FirstInvalidImage(images) ==
    IF \E i \in 1..Len(images) : ~is_valid_image(images[i])
    THEN CHOOSE i \in 1..Len(images) :
            /\ ~is_valid_image(images[i])
            /\ \A j \in 1..(i - 1) : is_valid_image(images[j])
    ELSE 0

\* the try block without the update of the hash cache
store_without_indexing(r, h, id, title, body, storeFails) ==
    IF storeFails
    THEN [rows |-> r, hashes |-> h, id |-> NoId, error |-> "Failed to create content"]
    ELSE [rows |-> create_content(r, id, title, body), hashes |-> h, id |-> id,
          error |-> ""]

\* manager.py:75-93  the try block: create_content, then the hash joins the index;
\* when db.create_content raises (storeFails) neither happens
store_and_index(r, h, id, title, body, storeFails) ==
    IF storeFails
    THEN [rows |-> r, hashes |-> h, id |-> NoId, error |-> "Failed to create content"]
    ELSE [rows |-> create_content(r, id, title, body),
          hashes |-> h \cup {generate_content_hash(title, body)},
          id |-> id,
          error |-> ""]

\* manager.py:67-73
is_duplicate(h, title, body, check_duplicates) ==
    check_duplicates /\ generate_content_hash(title, body) \in h

\* validate_and_create testing for a duplicate before it validates
validate_and_create_dedup_first(r, h, id, title, body, images, check_duplicates, storeFails) ==
    LET v == validate_content(title, body)
        refused(msg) == [rows |-> r, hashes |-> h, id |-> NoId, error |-> msg]
    IN  IF check_duplicates /\ generate_content_hash(title, body) \in h
        THEN refused("Duplicate content detected")
        ELSE IF ~v.ok THEN refused(v.error)
        ELSE IF FirstInvalidImage(images) # 0 THEN refused("Invalid image file")
        ELSE IF storeFails THEN refused("Failed to create content")
        ELSE [rows |-> create_content(r, id, title, body),
              hashes |-> h \cup {generate_content_hash(title, body)},
              id |-> id,
              error |-> ""]

\* manager.py:30-93  the error f"Invalid image file: {img}" is kept without the name
validate_and_create(r, h, id, title, body, images, check_duplicates, storeFails) ==
    LET v == validate_content(title, body)
        refused(msg) == [rows |-> r, hashes |-> h, id |-> NoId, error |-> msg]
    IN  IF ~v.ok THEN refused(v.error)
        ELSE IF FirstInvalidImage(images) # 0 THEN refused("Invalid image file")
        ELSE IF is_duplicate(h, title, body, check_duplicates)
        THEN refused("Duplicate content detected")
        ELSE store_and_index(r, h, id, title, body, storeFails)

(***************************************************************************)
(* XHSPublisher.publish_with_retry.  publish is a stub that answers its    *)
(* n-th call with outcomes[n]; publish itself returns a bool on every path *)
(* (publisher.py:1166-1202 catches Exception).  The result carries the log *)
(* of the answers publish gave, one per call.                              *)
(***************************************************************************)
\* publisher.py:1222-1228  the for loop from `attempt` on
RECURSIVE retry_loop(_, _, _, _)
retry_loop(outcomes, max_attempts, attempt, log) ==
    IF attempt > max_attempts
    THEN [result |-> FALSE, log |-> log]
    ELSE IF outcomes[Len(log) + 1]
         THEN [result |-> TRUE, log |-> Append(log, TRUE)]
         ELSE retry_loop(outcomes, max_attempts, attempt + 1, Append(log, FALSE))

\* the loop without the return on a successful attempt
publish_with_retry_past_success(outcomes, max_attempts) ==
    [result |-> \E i \in 1..max_attempts : outcomes[i],
     log |-> SubSeq(outcomes, 1, max_attempts)]

\* publisher.py:1204-1247
publish_with_retry(outcomes, max_attempts) == retry_loop(outcomes, max_attempts, 1, << >>)

(***************************************************************************)
(* Bounds and inputs.                                                      *)
(***************************************************************************)
\* rows ever created in one run
MaxIds == 2

\* timestamps handed out in one run
MaxClock == 2

\* ids a call may name: those of the rows, and one that never has a row
Ids == 1..(MaxIds + 1)

\* the content of the rows of the status machine
PlainTitle == Blk("a", 1)

PlainBody == Blk("xy", 1)

\* the (title, body) of the dedup specification: ("", "a") has no title,
\* ("a", "a") is ordinary, ("a:", "a") and ("a", ":a") differ in both fields
Contents ==
    {<<EmptyStr, Blk("a", 1)>>,
     <<Blk("a", 1), Blk("a", 1)>>,
     <<Blk("a", 1) \o Blk(":", 1), Blk("a", 1)>>,
     <<Blk("a", 1), Blk(":", 1) \o Blk("a", 1)>>}

\* images: none, one allowed, an allowed one followed by one that is not
ImageLists == {<< >>, << <<"p", "PNG">> >>, << <<"p", "png">>, <<"q", "txt">> >>}

\* the ids handed to one bulk_approve
MaxBulk == 2

\* the lists bulk_approve is called with: ids of rows, unknown ids, repeated ids
IdLists == UNION {[1..n -> Ids] : n \in 0..MaxBulk}

\* reject(reason), markFailed(error)
Reasons == {"r"}

Errors == {"e"}

(***************************************************************************)
(* The calls.  `last` records the call and what it returned.               *)
(***************************************************************************)
Call(op, id, ok, msg) ==
    [op |-> op, id |-> id, ok |-> ok, msg |-> msg,
     title |-> EmptyStr, body |-> EmptyStr, images |-> << >>, check |-> FALSE,
     ids |-> << >>, count |-> 0, returned |-> FALSE]

NoCall == Call("none", NoId, FALSE, "")

\* the step a status call takes: res is what the manager's method returns
StatusCall(op, id, msg, res) ==
    /\ rows' = res.rows
    /\ last' = Call(op, id, res.ok, msg)
    /\ UNCHANGED <<nextId, hashes, vTitle, vBody, vResult, retry, flow, auth, pub>>

\* ContentManager.create_content
Create(title, body) ==
    /\ nextId <= MaxIds
    /\ rows' = create_content(rows, nextId, title, body)
    /\ nextId' = nextId + 1
    /\ last' = [Call("create", nextId, TRUE, "") EXCEPT !.title = title, !.body = body]
    /\ UNCHANGED <<clock, hashes, vTitle, vBody, vResult, retry, flow, auth, pub>>

\* ContentManager.approve_content
Approve(id) ==
    /\ StatusCall("approve", id, "", approve_content(rows, id, clock + 1))
    /\ UNCHANGED clock

\* ContentManager.reject_content
Reject(id, reason) ==
    /\ StatusCall("reject", id, reason, reject_content(rows, id, reason, clock + 1))
    /\ UNCHANGED clock

\* ContentManager.mark_published: the row, when there is one, gets a timestamp
\* later than every timestamp stored before
MarkPublished(id) ==
    /\ clock < MaxClock
    /\ StatusCall("markPublished", id, "", mark_published(rows, id, clock + 1))
    /\ clock' = IF id \in DOMAIN rows THEN clock + 1 ELSE clock

\* ContentManager.mark_failed
MarkFailed(id, error) ==
    /\ StatusCall("markFailed", id, error, mark_failed(rows, id, error, clock + 1))
    /\ UNCHANGED clock

\* ContentManager.retry_failed_content
RetryFailed(id) ==
    /\ StatusCall("retryFailed", id, "", retry_failed_content(rows, id, clock + 1))
    /\ UNCHANGED clock

\* ContentManager.delete_content
Delete(id) ==
    \E res \in {delete_content(rows, hashes, id)} :
        /\ rows' = res.rows
        /\ hashes' = res.hashes
        /\ last' = Call("delete", id, res.ok, "")
        /\ UNCHANGED <<nextId, clock, vTitle, vBody, vResult, retry, flow, auth, pub>>

\* ContentManager.bulk_approve
BulkApprove(ids) ==
    \E res \in {bulk_approve(rows, ids, 1, 0, clock + 1)} :
        /\ rows' = res.rows
        /\ last' = [Call("bulkApprove", NoId, TRUE, "") EXCEPT
                        !.ids = ids, !.count = res.count]
        /\ UNCHANGED <<nextId, clock, hashes, vTitle, vBody, vResult, retry, flow, auth, pub>>

\* manager.py:53-76  the call gets as far as db.create_content
reaches_store(h, title, body, images, check_duplicates) ==
    /\ validate_content(title, body).ok
    /\ FirstInvalidImage(images) = 0
    /\ ~is_duplicate(h, title, body, check_duplicates)

\* ContentManager.validate_and_create; the store can fail only when it is called
CreateValidated(title, body, images, check_duplicates, storeFails) ==
    /\ storeFails => reaches_store(hashes, title, body, images, check_duplicates)
    /\ \E res \in {validate_and_create(rows, hashes, nextId, title, body, images,
                                       check_duplicates, storeFails)} :
        /\ res.id # NoId => nextId <= MaxIds
        /\ rows' = res.rows
        /\ hashes' = res.hashes
        /\ nextId' = IF res.id = NoId THEN nextId ELSE nextId + 1
        /\ last' = [op |-> "createValidated", id |-> res.id, ok |-> res.id # NoId,
                    msg |-> res.error, title |-> title, body |-> body,
                    images |-> images, check |-> check_duplicates,
                    ids |-> << >>, count |-> 0, returned |-> FALSE]
        /\ UNCHANGED <<clock, vTitle, vBody, vResult, retry, flow, auth, pub>>

\* ContentManager.__init__ on the same database: a new process, a new index
Restart(loadFails) ==
    /\ hashes' = load_content_hashes(rows, loadFails)
    /\ last' = Call("restart", NoId, ~loadFails, "")
    /\ UNCHANGED <<rows, nextId, clock, vTitle, vBody, vResult, retry, flow, auth, pub>>

NotCalled == [ok |-> FALSE, error |-> "<not called>"]

\* publish_with_retry not called
NoRetry == [outcomes |-> << >>, max_attempts |-> 0, returned |-> FALSE,
            result |-> FALSE, log |-> << >>]

\* no ContentWorkflow constructed
NoFlow == [pc |-> "none"]

\* no XHSAuthManager constructed
NoAuth == [pc |-> "none"]

\* no XHSPublisher call under examination
NoPub == [op |-> "none"]

\* the variables of the other specifications, at rest
InitOthers ==
    /\ retry = NoRetry
    /\ flow = NoFlow
    /\ auth = NoAuth
    /\ pub = NoPub


\* a fresh database and a ContentManager constructed on it
InitContent ==
    /\ rows = << >>
    /\ nextId = 1
    /\ clock = 0
    /\ hashes = load_content_hashes(<< >>, FALSE)
    /\ last = NoCall

Init ==
    /\ InitContent
    /\ vTitle = EmptyStr
    /\ vBody = EmptyStr
    /\ vResult = NotCalled
    /\ InitOthers

\* the status machine
Next ==
    \/ Create(PlainTitle, PlainBody)
    \/ \E id \in Ids : Approve(id)
    \/ \E id \in Ids, reason \in Reasons : Reject(id, reason)
    \/ \E id \in Ids : MarkPublished(id)
    \/ \E id \in Ids, error \in Errors : MarkFailed(id, error)
    \/ \E id \in Ids : RetryFailed(id)
    \/ \E id \in Ids : Delete(id)

Spec == Init /\ [][Next]_vars

\* creation, deletion and the dedup index
NextDedup ==
    \/ \E c \in Contents, images \in ImageLists,
          check_duplicates \in BOOLEAN, storeFails \in BOOLEAN :
            CreateValidated(c[1], c[2], images, check_duplicates, storeFails)
    \/ \E c \in Contents : Create(c[1], c[2])
    \/ \E id \in Ids : Delete(id)
    \/ \E loadFails \in BOOLEAN : Restart(loadFails)

SpecDedup == Init /\ [][NextDedup]_vars

\* two contents with different hashes
StoreContents ==
    {<<Blk("a", 1), Blk("a", 1)>>, <<Blk("a", 1), Blk(":", 1) \o Blk("a", 1)>>}

\* the status operations on a store whose rows are in the dedup index
NextStore ==
    \/ \E c \in StoreContents : CreateValidated(c[1], c[2], << >>, TRUE, FALSE)
    \/ \E id \in Ids : Approve(id)
    \/ \E id \in Ids, reason \in Reasons : Reject(id, reason)
    \/ \E id \in Ids : MarkPublished(id)
    \/ \E id \in Ids, error \in Errors : MarkFailed(id, error)
    \/ \E id \in Ids : RetryFailed(id)
    \/ \E id \in Ids : Delete(id)
    \/ \E ids \in IdLists : BulkApprove(ids)

SpecStore == Init /\ [][NextStore]_vars

(***************************************************************************)
(* validate_content on bounded inputs: runs of one character around the    *)
(* repetition count, lengths around the two maxima, blank and control      *)
(* characters, a body of two lines.                                        *)
(***************************************************************************)
\* how far around SpamRepeat, MaxTitleLen and MaxBodyLen the inputs go
Slack == 1

RunLens == {1} \cup ((SpamRepeat - Slack)..(SpamRepeat + 1 + Slack))

ShortStrings ==
    {EmptyStr, Blk("xy", 1)} \cup {Blk(w, k) : w \in {"a", " ", "\n"}, k \in RunLens}

\* "xyxy...xy" of n characters (n even), then j times "a"
Padded(n, j) == IF j = 0 THEN Blk("xy", n \div 2) ELSE Blk("xy", n \div 2) \o Blk("a", j)

VTitles == ShortStrings \cup {Padded(MaxTitleLen, j) : j \in 0..Slack}

VBodies ==
    ShortStrings \cup {Padded(MaxBodyLen, j) : j \in 0..Slack}
                 \cup {Blk("xy", 1) \o Blk("\n", 1) \o Blk("xy", 1)}

\* validate_content(vTitle, vBody) is called
Validate ==
    /\ vResult = NotCalled
    /\ vResult' = validate_content(vTitle, vBody)
    /\ UNCHANGED <<rows, nextId, clock, hashes, last, vTitle, vBody, retry, flow, auth, pub>>

InitValidate ==
    /\ InitContent
    /\ InitOthers
    /\ vTitle \in VTitles
    /\ vBody \in VBodies
    /\ vResult = NotCalled

NextValidate == Validate

SpecValidate == InitValidate /\ [][NextValidate]_vars

(***************************************************************************)
(* ContentWorkflow.  flow.steps are the six WorkflowStep statuses,         *)
(* flow.current_step the index _update_step writes (0-based, as in the     *)
(* code), flow.pc the operation the run is at and flow.entered whether its *)
(* handler has made its first _update_step(IN_PROGRESS).  The _next_step() *)
(* a run makes between two handlers is taken together with the return of   *)
(* the earlier handler.                                                    *)
(***************************************************************************)
\* workflow.py:27-33
WorkflowStatus == {"pending", "in_progress", "completed", "failed", "skipped"}

\* the six operations, in the order both run modes call them
OpOrder == <<"initialize", "generate", "import", "approve", "login", "publish">>

Ops == {OpOrder[i] : i \in 1..6}

OpIndex(op) == CHOOSE i \in 1..6 : OpOrder[i] = op

\* workflow.py:100-110
init_steps == [i \in 1..6 |-> "pending"]

\* workflow.py:112-128  steps[current_step].status = status, when there is such a step
update_step(f, status) ==
    IF f.current_step < Len(f.steps)
    THEN [f EXCEPT !.steps[f.current_step + 1] = status]
    ELSE f

\* the handler of op returned True: run_interactive (workflow.py:357-387) calls
\* _next_step() once after _step_initialize and once before every later handler,
\* run_import_and_publish (418-447) once after every handler but the last
continue_run(f, op) ==
    IF op = "publish"
    THEN [f EXCEPT !.pc = "finally", !.result = "true"]
    ELSE [f EXCEPT !.pc = OpOrder[OpIndex(op) + 1],
                   !.entered = FALSE,
                   !.current_step =
                       @ + (IF f.interactive /\ op = "initialize" THEN 2 ELSE 1)]

\* the handler of op returned False: `return False`, into the finally clause
halt_run(f, op) ==
    [f EXCEPT !.pc = "finally", !.result = "false", !.failedOp = op]

\* a run that goes on to the next handler whatever the last one returned
after_step_ignoring_result(f, op, ok) ==
    [continue_run(f, op) EXCEPT !.failedOp = IF ok \/ @ # "" THEN @ ELSE op]

\* workflow.py:357-387, 418-447  `if not self._step_x(): return False`
after_step(f, op, ok) == IF ok THEN continue_run(f, op) ELSE halt_run(f, op)

\* an exception that no handler catches (KeyboardInterrupt is not an Exception)
\* leaves the run through the finally clause
raise_run(f) == [f EXCEPT !.pc = "finally", !.result = "raised", !.interrupted = TRUE]

\* _print_summary called only when the run returns
print_summary_on_return(f) ==
    [f EXCEPT !.pc = "done",
              !.summaries = IF f.result = "raised" THEN @ ELSE @ + 1]

\* workflow.py:389-390, 449-450, 452-471  finally: self._print_summary()
print_summary(f) == [f EXCEPT !.pc = "done", !.summaries = @ + 1]

\* an answer at the prompt that ends the loop of workflow.py:249-262 by a return;
\* the answer "n" taken for an approval
approval_of_accepting_all(response) == [status |-> "completed", ok |-> TRUE]

\* workflow.py:251-258  "y" approves, "n" rejects
approval_of(response) ==
    IF response = "y"
    THEN [status |-> "completed", ok |-> TRUE]
    ELSE [status |-> "skipped", ok |-> FALSE]

(***************************************************************************)
(* GeneratedContent (bannaflow.py:31-40): title, body and tags; a tag is a *)
(* one-character word, written once.  The words are lower case, so         *)
(* str.lower() leaves them as they are.                                    *)
(***************************************************************************)
\* self.generated_content = None
NoContent == [title |-> EmptyStr, body |-> EmptyStr, tags |-> <<"<None>">>]

\* f"#{tag}"
Hashtag(tag) == Blk("#", 1) \o Blk(tag, 1)

\* bannaflow.py:512  f"#{tag.lower()}" in body.lower()
HasHashtag(body, tag) ==
    \E i \in 1..(Len(body) - 1) : body[i][1] = "#" /\ body[i + 1][1] = tag

\* bannaflow.py:512  the tags whose hashtag the body does not hold, in order
MissingTags(body, tags) == SelectSeq(tags, LAMBDA tag : ~HasHashtag(body, tag))

\* " ".join(hashtags)
RECURSIVE JoinHashtags(_)
JoinHashtags(tags) ==
    IF tags = << >> THEN EmptyStr
    ELSE IF Len(tags) = 1 THEN Hashtag(tags[1])
    ELSE Concat(Concat(Hashtag(tags[1]), Blk(" ", 1)), JoinHashtags(Tail(tags)))

\* bannaflow.py:496-516  (title, body) as the publisher takes them
create_content_from_bannaflow(content) ==
    LET hashtags == MissingTags(content.body, content.tags)
    IN  <<content.title,
          IF hashtags # << >>
          THEN Concat(Concat(RStrip(content.body), Blk("\n", 2)), JoinHashtags(hashtags))
          ELSE content.body>>

(***************************************************************************)
(* The runs of the workflow (run_full_workflow: a new ContentWorkflow for  *)
(* every run, on the same database) and the publish endpoint of the API.   *)
(***************************************************************************)
\* config.py:31  publishing.retry_attempts
RetryAttempts == 3

\* config.py:30  publishing.max_posts_per_day
MaxPostsPerDay == 3

\* what BannaFlow hands over: an ordinary item, one with a tag its body does not
\* hold, one without a title and with a tag its body holds
Generated ==
    {[title |-> Blk("a", 1), body |-> Blk("a", 1), tags |-> << >>],
     [title |-> Blk("a", 1), body |-> Blk("a", 1) \o Blk(" ", 1), tags |-> <<"a">>],
     [title |-> EmptyStr, body |-> Blk("#", 1) \o Blk("a", 1), tags |-> <<"a">>]}

\* the answers of the stub publish to the calls of one publish_with_retry
FlowOutcomes == [1..RetryAttempts -> BOOLEAN]

\* the answers at the prompt that end its loop: approve, reject, end of input
\* (EOFError), Ctrl+C (KeyboardInterrupt)
Responses == {"y", "n", "eof", "interrupt"}

\* auth_manager.login() returned True with a live driver, returned True but
\* get_driver() is None, returned False, raised an Exception, was interrupted
LoginOutcomes == {"ok", "no_driver", "failed", "raises", "interrupt"}

\* the session a step meets: live and logged in, a driver whose browser is gone,
\* a live driver that is not logged in
Sessions == {"live", "dead", "logged_out"}

\* what the login step learns of the session from login() and get_driver()
session_after_login(outcome) ==
    CASE outcome = "ok" -> "live"
      [] outcome = "no_driver" -> "dead"
      [] outcome = "failed" -> "logged_out"
      [] OTHER -> "none"

\* XHSPublisher.publish on a session that is not live: every helper catches its
\* exceptions and publish returns False (publisher.py:1166-1202)
NoSuccess == [i \in 1..RetryAttempts |-> FALSE]

\* bannaflow.py:376-377
MaxWait == 600

CheckInterval == 5

\* the longest history the source holds
MaxHistory == 2

\* generate_content_interactive not called
NoGen == [pc |-> "idle", initial_count |-> 0, waited |-> 0, polls |-> 0,
          last_len |-> 0, result |-> NoContent, interrupted |-> FALSE]

\* a history longer by at least two items
has_new_item_by_two(len, initial_count) == len > initial_count + 1

\* bannaflow.py:385, 405  len(current_history) > initial_count
has_new_item(len, initial_count) == len > initial_count

\* workflow.py:65-98, 100-110  ContentWorkflow() and _init_steps()
NewRun(interactive, auto_approve) ==
    [pc |-> "initialize", entered |-> FALSE,
     interactive |-> interactive, auto_approve |-> auto_approve,
     steps |-> init_steps, current_step |-> 0,
     generated |-> NoContent, content_id |-> NoId, publisher |-> FALSE,
     ops |-> << >>, failedOp |-> "", rejected |-> FALSE, interrupted |-> FALSE,
     retried |-> "none", result |-> "none",
     summaries |-> 0, logins |-> 0, publishes |-> 0, session |-> "none",
     gen |-> NoGen]

\* run_full_workflow (workflow.py:481-505): ContentWorkflow() constructs the
\* ContentManager, which loads the index; then the run starts with _init_steps()
StartRun(interactive, auto_approve) ==
    /\ flow.pc \in {"none", "done"}
    /\ nextId <= MaxIds
    /\ flow' = NewRun(interactive, auto_approve)
    /\ hashes' = load_content_hashes(rows, FALSE)
    /\ UNCHANGED <<rows, nextId, clock, last, vTitle, vBody, vResult, retry, auth, pub>>

\* the first statement of every handler: _update_step(IN_PROGRESS, ...)
EnterStep ==
    /\ flow.pc \in Ops
    /\ ~flow.entered
    /\ flow' = [update_step(flow, "in_progress") EXCEPT
                    !.entered = TRUE, !.ops = Append(@, flow.pc)]
    /\ UNCHANGED <<rows, nextId, clock, hashes, last, vTitle, vBody, vResult, retry, auth, pub>>

\* workflow.py:134-155  the constructors succeed, or one raises
StepInitialize(ok) ==
    /\ flow.pc = "initialize"
    /\ flow.entered
    /\ flow' = after_step(update_step(flow, IF ok THEN "completed" ELSE "failed"),
                          "initialize", ok)
    /\ UNCHANGED <<rows, nextId, clock, hashes, last, vTitle, vBody, vResult, retry, auth, pub>>

\* workflow.py:157-186  content is what generate_content_interactive returns (None
\* after the 600 s of polling, or after Ctrl+C with nothing new: bannaflow.py:
\* 374-419) or the first item of import_from_bannaflow (None for an empty list)
StepGenerate(content, raises) ==
    /\ flow.pc = "generate"
    /\ flow.entered
    /\ LET ok == ~raises /\ content # NoContent
           f == [flow EXCEPT !.generated = IF raises THEN @ ELSE content]
       IN  flow' = after_step(update_step(f, IF ok THEN "completed" ELSE "failed"),
                              "generate", ok)
    /\ UNCHANGED <<rows, nextId, clock, hashes, last, vTitle, vBody, vResult, retry, auth, pub>>

\* workflow.py:188-217  the plain ContentManager.create_content, or it raises
StepImport(storeFails) ==
    /\ flow.pc = "import"
    /\ flow.entered
    /\ LET ok == flow.generated # NoContent /\ ~storeFails
           c == create_content_from_bannaflow(flow.generated)
           f == [flow EXCEPT !.content_id = IF ok THEN nextId ELSE @]
       IN  /\ flow' = after_step(update_step(f, IF ok THEN "completed" ELSE "failed"),
                                 "import", ok)
           /\ rows' = IF ok THEN create_content(rows, nextId, c[1], c[2]) ELSE rows
           /\ nextId' = IF ok THEN nextId + 1 ELSE nextId
    /\ UNCHANGED <<clock, hashes, last, vTitle, vBody, vResult, retry, auth, pub>>

\* workflow.py:219-232  auto_approve
StepApproveAuto ==
    /\ flow.pc = "approve"
    /\ flow.entered
    /\ flow.auto_approve
    /\ LET ok == flow.content_id # NoId
       IN  /\ flow' = after_step(update_step(flow, IF ok THEN "completed" ELSE "failed"),
                                 "approve", ok)
           /\ rows' = IF ok THEN approve_content(rows, flow.content_id, clock + 1).rows
                      ELSE rows
    /\ UNCHANGED <<nextId, clock, hashes, last, vTitle, vBody, vResult, retry, auth, pub>>

\* workflow.py:233-266  the prompt: input() returns "y" or "n", raises EOFError
\* (caught: FAILED) or KeyboardInterrupt (not caught by `except Exception`)
StepApproveManual(response) ==
    /\ flow.pc = "approve"
    /\ flow.entered
    /\ ~flow.auto_approve
    /\ LET id == flow.content_id
       IN  IF id = NoId \/ response = "eof"
           THEN /\ flow' = after_step(update_step(flow, "failed"), "approve", FALSE)
                /\ rows' = rows
           ELSE IF response = "interrupt"
           THEN /\ flow' = raise_run(flow)
                /\ rows' = rows
           ELSE /\ flow' = after_step(
                               update_step([flow EXCEPT !.rejected = (response = "n")],
                                           approval_of(response).status),
                               "approve", approval_of(response).ok)
                /\ rows' = IF response = "y"
                           THEN approve_content(rows, id, clock + 1).rows
                           ELSE reject_content(rows, id, "Rejected by user", clock + 1).rows
    /\ UNCHANGED <<nextId, clock, hashes, last, vTitle, vBody, vResult, retry, auth, pub>>

\* workflow.py:268-291  auth_manager.login(), then XHSPublisher(driver)
StepLogin(outcome) ==
    /\ flow.pc = "login"
    /\ flow.entered
    /\ LET f == [flow EXCEPT !.logins = @ + 1, !.publisher = (outcome = "ok"),
                              !.session = session_after_login(outcome)]
       IN  flow' = IF outcome = "interrupt"
                   THEN raise_run(f)
                   ELSE after_step(update_step(f, IF outcome = "ok" THEN "completed"
                                                                      ELSE "failed"),
                                   "login", outcome = "ok")
    /\ UNCHANGED <<rows, nextId, clock, hashes, last, vTitle, vBody, vResult, retry, auth, pub>>

\* a test that lets every stored row through
publishable_whatever_status(r, id) == get_content(r, id) # NoRow

\* workflow.py:301-309, api.py:323-330  the row exists and its status is approved
publishable(r, id) ==
    /\ get_content(r, id) # NoRow
    /\ get_content(r, id).status = "approved"

\* workflow.py:293-329  publish_with_retry over the stub publish, then
\* mark_published or mark_failed; session: the session the publisher's driver
\* has when the step runs.  The handler calls neither _ensure_driver nor login.
StepPublish(outcomes, session) ==
    /\ flow.pc = "publish"
    /\ flow.entered
    /\ session # "live" => outcomes = NoSuccess
    /\ LET id == flow.content_id
           ready == /\ flow.publisher
                    /\ id # NoId
                    /\ publishable(rows, id)
       IN  \E res \in {publish_with_retry(outcomes, RetryAttempts)} :
             LET ok == ready /\ res.result
                 f == IF ready
                      THEN [flow EXCEPT !.publishes = @ + Len(res.log),
                                        !.session = session,
                                        !.retried = IF res.result THEN "true" ELSE "false"]
                      ELSE flow
             IN  /\ ok => clock < MaxClock
                 /\ flow' = after_step(update_step(f, IF ok THEN "completed" ELSE "failed"),
                                       "publish", ok)
                 /\ rows' = IF ~ready THEN rows
                            ELSE IF ok THEN mark_published(rows, id, clock + 1).rows
                            ELSE mark_failed(rows, id, "Publishing failed after retries",
                                             clock + 1).rows
                 /\ clock' = IF ok THEN clock + 1 ELSE clock
    /\ UNCHANGED <<nextId, hashes, last, vTitle, vBody, vResult, retry, auth, pub>>

\* workflow.py:389-390, 449-450  the finally clause, then the run is over
Finally ==
    /\ flow.pc = "finally"
    /\ flow' = print_summary(flow)
    /\ UNCHANGED <<rows, nextId, clock, hashes, last, vTitle, vBody, vResult, retry, auth, pub>>

\* manager.py:185-189  the rows published today (every timestamp is of today)
can_publish_today(r, max_posts) ==
    Cardinality({i \in DOMAIN r : r[i].status = "published"}) < max_posts

\* api.py:314-358  POST /api/publish/{content_id} of a logged-in API process on
\* the same database, while no run of the workflow is under way.  abandoned:
\* future.result(timeout=300) raises TimeoutError, whose str() is the empty string;
\* leaving the with block joins the worker (shutdown(wait=True)), so the except
\* branch runs after publish_with_retry has returned.  returned: what it returned
ApiPublish(id, outcomes, abandoned) ==
    /\ flow.pc \in {"none", "done"}
    /\ publishable(rows, id)
    /\ can_publish_today(rows, MaxPostsPerDay)
    /\ \E res \in {publish_with_retry(outcomes, RetryAttempts)} :
         LET ok == ~abandoned /\ res.result
             error == IF abandoned THEN "" ELSE "Publishing failed after retries"
         IN  /\ ok => clock < MaxClock
             /\ rows' = IF ok THEN mark_published(rows, id, clock + 1).rows
                        ELSE mark_failed(rows, id, error, clock + 1).rows
             /\ clock' = IF ok THEN clock + 1 ELSE clock
             /\ last' = [Call(IF abandoned THEN "publishAbandoned" ELSE "publish",
                              id, ok, IF ok THEN "" ELSE error)
                             EXCEPT !.returned = res.result]
    /\ UNCHANGED <<nextId, hashes, vTitle, vBody, vResult, retry, flow, auth, pub>>

FlowFrame ==
    UNCHANGED <<rows, nextId, clock, hashes, last, vTitle, vBody, vResult, retry, auth, pub>>

\* bannaflow.py:363-368  open_bannaflow(); the length of the history at the start
\* (get_published_history returns [] when it cannot read the history)
OpenBannaflow(opened, count) ==
    /\ flow.pc = "generate"
    /\ flow.entered
    /\ flow.interactive
    /\ flow.gen.pc = "idle"
    /\ ~opened => count = 0
    /\ flow' = [flow EXCEPT !.gen =
                    IF opened THEN [@ EXCEPT !.pc = "polling", !.initial_count = count]
                    ELSE [@ EXCEPT !.pc = "returned"]]
    /\ FlowFrame

\* bannaflow.py:380-400  one iteration of the while loop: sleep, read the history
\* (len items, the first one is item), return it or test waited < max_wait again
Poll(len, item) ==
    /\ flow.pc = "generate"
    /\ flow.gen.pc = "polling"
    /\ LET waited == flow.gen.waited + CheckInterval
           g == [flow.gen EXCEPT !.waited = waited, !.polls = @ + 1, !.last_len = len]
       IN  flow' = [flow EXCEPT !.gen =
                       IF has_new_item(len, flow.gen.initial_count)
                       THEN [g EXCEPT !.pc = "returned", !.result = item]
                       ELSE IF waited < MaxWait THEN g
                       ELSE [g EXCEPT !.pc = "returned"]]
    /\ FlowFrame

\* bannaflow.py:402-416  KeyboardInterrupt inside the try block: the history is
\* read once more
Interrupt(len, item) ==
    /\ flow.pc = "generate"
    /\ flow.gen.pc = "polling"
    /\ LET g == [flow.gen EXCEPT !.pc = "returned", !.interrupted = TRUE, !.last_len = len]
       IN  flow' = [flow EXCEPT !.gen =
                       IF has_new_item(len, flow.gen.initial_count)
                       THEN [g EXCEPT !.result = item]
                       ELSE g]
    /\ FlowFrame

\* workflow.py:161-182  generate_content_interactive has returned
GenerateInteractive ==
    /\ flow.pc = "generate"
    /\ flow.gen.pc = "returned"
    /\ StepGenerate(flow.gen.result, FALSE)

InitGenerate ==
    /\ InitContent
    /\ vTitle = EmptyStr
    /\ vBody = EmptyStr
    /\ vResult = NotCalled
    /\ InitOthers

\* the handlers of an interactive run up to the end of the generation
GenerateSteps ==
    \/ EnterStep
    \/ \E ok \in BOOLEAN : StepInitialize(ok)
    \/ \E opened \in BOOLEAN, count \in 0..MaxHistory : OpenBannaflow(opened, count)
    \/ \E len \in 0..MaxHistory, item \in Generated : Poll(len, item)
    \/ GenerateInteractive
    \/ Finally

NextGenerate ==
    \/ \E auto_approve \in BOOLEAN : StartRun(TRUE, auto_approve)
    \/ \E len \in 0..MaxHistory, item \in Generated : Interrupt(len, item)
    \/ GenerateSteps

\* the handlers are sequential code: a run that can take a step takes one
SpecGenerate == InitGenerate /\ [][NextGenerate]_vars /\ WF_vars(GenerateSteps)

InitFlow ==
    /\ InitContent
    /\ vTitle = EmptyStr
    /\ vBody = EmptyStr
    /\ vResult = NotCalled
    /\ InitOthers

NextFlow ==
    \/ \E interactive \in BOOLEAN, auto_approve \in BOOLEAN :
            StartRun(interactive, auto_approve)
    \/ EnterStep
    \/ \E ok \in BOOLEAN : StepInitialize(ok)
    \/ \E content \in Generated \cup {NoContent}, raises \in BOOLEAN :
            StepGenerate(content, raises)
    \/ \E storeFails \in BOOLEAN : StepImport(storeFails)
    \/ StepApproveAuto
    \/ \E response \in Responses : StepApproveManual(response)
    \/ \E outcome \in LoginOutcomes : StepLogin(outcome)
    \/ \E outcomes \in FlowOutcomes, session \in Sessions : StepPublish(outcomes, session)
    \/ Finally
    \/ \E id \in Ids, outcomes \in FlowOutcomes, abandoned \in BOOLEAN :
            ApiPublish(id, outcomes, abandoned)

SpecFlow == InitFlow /\ [][NextFlow]_vars

(***************************************************************************)
(* XHSAuthManager.  auth.driver is self.driver: "none" (None), "alive" (a  *)
(* driver whose session answers) or "dead" (a driver whose browser is      *)
(* gone); auth.logged_in is self._logged_in; auth.cookies is the cookie    *)
(* file; auth.drivers counts the drivers _init_browser created and         *)
(* auth.confirmed records whether a login or a forced check has succeeded  *)
(* on the driver that is there now; auth.call is the last call made.       *)
(***************************************************************************)
\* the cookies of a saved session
CookieCount == 2

\* xhs_auth.py:206-215
is_driver_alive(a) == a.driver = "alive"

\* xhs_auth.py:94-204  a new driver, self._logged_in as it was
init_browser(a) ==
    [a EXCEPT !.driver = "alive", !.drivers = @ + 1, !.confirmed = FALSE]

\* xhs_auth.py:217-226
ensure_driver(a) == IF is_driver_alive(a) THEN a ELSE init_browser(a)

\* xhs_auth.py:255-301  applied: the cookies add_cookie accepted; raises: an
\* exception inside the try block
load_session(a, applied, raises) ==
    /\ a.cookies # "missing"
    /\ is_driver_alive(a)
    /\ ~raises
    /\ a.cookies # "empty"
    /\ applied > 0

\* xhs_auth.py:303-353  url_has_login: 'login' is in the URL after the
\* navigation; element_found: the wait for a user element succeeded; raises: the
\* navigation or the wait raised another exception than TimeoutException
is_logged_in(a, force_check, url_has_login, element_found, raises) ==
    IF ~is_driver_alive(a)
    THEN [auth |-> [a EXCEPT !.logged_in = FALSE], ok |-> FALSE]
    ELSE IF ~force_check
    THEN [auth |-> a, ok |-> a.logged_in]
    ELSE IF ~raises /\ (~url_has_login \/ element_found)
    THEN [auth |-> [a EXCEPT !.logged_in = TRUE, !.confirmed = TRUE], ok |-> TRUE]
    ELSE [auth |-> [a EXCEPT !.logged_in = FALSE], ok |-> FALSE]

\* the outcomes of a fresh login: the URL left the login page, the same with
\* _save_session failing (its except branch, xhs_auth.py:252-253), the URL did not
\* leave it, an Exception was raised, the wait was interrupted (KeyboardInterrupt)
FreshOutcomes == {"success", "success_unsaved", "login_page", "raises", "interrupt"}

\* the outcomes in which the final URL has no login marker
UrlLeftLogin == {"success", "success_unsaved"}

\* xhs_auth.py:397-539, 541-640  login_sms / login_qr; 667-674 for a login_method
\* that is neither
fresh_login(a, method, outcome) ==
    IF method \notin {"sms", "qr_code"} \/ outcome = "interrupt"
    THEN [auth |-> ensure_driver(a), ok |-> FALSE, saved |-> FALSE]
    ELSE IF outcome \in UrlLeftLogin
    THEN [auth |-> [ensure_driver(a) EXCEPT
                        !.logged_in = TRUE, !.confirmed = TRUE,
                        !.cookies = IF outcome = "success" THEN "saved" ELSE @],
          ok |-> TRUE, saved |-> outcome = "success"]
    ELSE [auth |-> [ensure_driver(a) EXCEPT !.logged_in = FALSE], ok |-> FALSE,
          saved |-> FALSE]

\* a saved session taken for a login as soon as its cookies were applied
accept_session_unchecked(loaded, confirmed) == loaded

\* xhs_auth.py:658-660  if session_loaded: if self.is_logged_in(force_check=True)
accept_session(loaded, confirmed) == loaded /\ confirmed

\* a fresh login started although the saved session was confirmed
starts_fresh_login_always(accepted) == TRUE

\* xhs_auth.py:658-667  the fresh login is reached only if login() has not
\* returned on the saved session
starts_fresh_login(accepted) == ~accepted

\* xhs_auth.py:642-674  flows: the fresh login flows (login_sms, login_qr) started
login(a, applied, load_raises, url_has_login, element_found, check_raises, method, outcome) ==
    LET a1 == ensure_driver(a)
        loaded == load_session(a1, applied, load_raises)
        check == IF loaded
                 THEN is_logged_in(a1, TRUE, url_has_login, element_found, check_raises)
                 ELSE [auth |-> a1, ok |-> FALSE]
        fresh == fresh_login(check.auth, method, outcome)
        accepted == accept_session(loaded, check.ok)
    IN  IF ~starts_fresh_login(accepted)
        THEN [auth |-> [check.auth EXCEPT !.logged_in = TRUE], ok |-> TRUE,
              loaded |-> loaded, checked |-> check.ok, fresh |-> "none", flows |-> 0,
              saved |-> FALSE]
        ELSE [auth |-> fresh.auth, ok |-> fresh.ok,
              loaded |-> loaded, checked |-> check.ok, fresh |-> outcome,
              flows |-> IF method \in {"sms", "qr_code"} THEN 1 ELSE 0,
              saved |-> fresh.saved]

(***************************************************************************)
(* The calls on the session manager, and the death of its browser.         *)
(***************************************************************************)
\* drivers created in one run
MaxDrivers == 2

\* the cookie file: absent, holding an empty list, holding CookieCount cookies
CookieFiles == {"missing", "empty", "saved"}

\* login_method: the two the manager knows, and another string (the login
\* endpoint passes the method of the request: api.py:131, 288)
LoginMethods == {"sms", "qr_code", "other"}

\* what _load_session meets: <<cookies applied, an exception raised>>; no cookie
\* applied, one, all of them, all of them and an exception after the loop
LoadInputs ==
    {<<0, FALSE>>, <<1, FALSE>>, <<CookieCount, FALSE>>, <<CookieCount, TRUE>>}

\* what a forced check meets: <<url_has_login, element_found, raises>>
CheckInputs ==
    {<<FALSE, FALSE, FALSE>>, <<TRUE, TRUE, FALSE>>, <<TRUE, FALSE, FALSE>>,
     <<FALSE, FALSE, TRUE>>}

\* a record of a call; tick alternates, so that a call repeated differs from the
\* one before
AuthCall(a, op, ok) ==
    [op |-> op, ok |-> ok, tick |-> ~a.call.tick, found_dead |-> ~is_driver_alive(a),
     force |-> FALSE, confirms |-> FALSE, loaded |-> FALSE, applied |-> 0,
     checked |-> FALSE, fresh |-> "none", flows |-> 0, method |-> "none",
     saved |-> FALSE, new_manager |-> FALSE]

NoAuthCall ==
    [op |-> "none", ok |-> FALSE, tick |-> FALSE, found_dead |-> FALSE,
     force |-> FALSE, confirms |-> FALSE, loaded |-> FALSE, applied |-> 0,
     checked |-> FALSE, fresh |-> "none", flows |-> 0, method |-> "none",
     saved |-> FALSE, new_manager |-> FALSE]

\* xhs_auth.py:50-68  XHSAuthManager(...), with the cookie file as it is on disk
NewManager(cookies) ==
    [driver |-> "none", logged_in |-> FALSE, confirmed |-> FALSE, cookies |-> cookies,
     drivers |-> 0, publisher |-> FALSE, publisher_driver |-> 0, orphans |-> {},
     call |-> NoAuthCall]

\* the inputs of login() that it reads: the forced check runs only on a loaded
\* session, the fresh login only if the session was not accepted; an input that
\* is not read has its first value
LoginReads(a, applied, load_raises, url_has_login, element_found, check_raises, method, outcome) ==
    LET loaded == load_session(ensure_driver(a), applied, load_raises)
        confirms == ~check_raises /\ (~url_has_login \/ element_found)
    IN  /\ ~loaded => (~url_has_login /\ ~element_found /\ ~check_raises)
        /\ (loaded /\ confirms) => (method = "sms" /\ outcome = "success")
        /\ method \notin {"sms", "qr_code"} => outcome = "login_page"

\* the variables the session manager does not touch
AuthFrame ==
    UNCHANGED <<rows, nextId, clock, hashes, last, vTitle, vBody, vResult, retry, flow, pub>>

\* the browser of the driver is closed or crashes
DriverDies ==
    /\ auth.driver = "alive"
    /\ auth' = [auth EXCEPT !.driver = "dead"]
    /\ AuthFrame

\* XHSAuthManager._ensure_driver, the first statement of login, login_sms and
\* login_qr
EnsureDriver ==
    /\ is_driver_alive(auth) \/ auth.drivers < MaxDrivers
    /\ auth' = [ensure_driver(auth) EXCEPT !.call = AuthCall(auth, "ensureDriver", TRUE)]
    /\ AuthFrame

\* XHSAuthManager.is_logged_in
IsLoggedIn(force_check, url_has_login, element_found, raises) ==
    /\ \E res \in {is_logged_in(auth, force_check, url_has_login, element_found, raises)} :
        auth' = [res.auth EXCEPT !.call =
                    [AuthCall(auth, "isLoggedIn", res.ok) EXCEPT
                        !.force = force_check,
                        !.confirms = ~raises /\ (~url_has_login \/ element_found)]]
    /\ AuthFrame

\* XHSAuthManager._load_session, called on its own (api.py:69)
LoadSession(applied, raises) ==
    /\ auth' = [auth EXCEPT !.call =
                    [AuthCall(auth, "loadSession", load_session(auth, applied, raises))
                        EXCEPT !.applied = applied]]
    /\ AuthFrame

\* XHSAuthManager.login, and the XHSPublisher its callers create when it returns
\* True and get_driver() gives a driver (workflow.py:273-281, api.py:295-302)
Login(applied, load_raises, url_has_login, element_found, check_raises, method, outcome) ==
    /\ is_driver_alive(auth) \/ auth.drivers < MaxDrivers
    /\ LoginReads(auth, applied, load_raises, url_has_login, element_found, check_raises,
                  method, outcome)
    /\ \E res \in {login(auth, applied, load_raises, url_has_login, element_found,
                         check_raises, method, outcome)} :
        auth' = [res.auth EXCEPT
                    !.publisher = @ \/ (res.ok /\ is_driver_alive(res.auth)),
                    !.publisher_driver = IF res.ok /\ is_driver_alive(res.auth)
                                         THEN res.auth.drivers ELSE @,
                    !.call = [AuthCall(auth, "login", res.ok) EXCEPT
                                !.loaded = res.loaded, !.applied = applied,
                                !.checked = res.checked, !.fresh = res.fresh,
                                !.flows = res.flows, !.method = method,
                                !.saved = res.saved]]
    /\ AuthFrame

\* api.py:40-83  init_auth_manager and _restore_session: a new manager, a new
\* browser, _load_session, then is_logged_in() without force_check
InitAuthManager(applied, raises) ==
    /\ auth.drivers < MaxDrivers
    /\ LET a == init_browser([NewManager(auth.cookies) EXCEPT !.drivers = auth.drivers])
           loaded == load_session(a, applied, raises)
           accepted == loaded /\ is_logged_in(a, FALSE, FALSE, FALSE, FALSE).ok
       IN  auth' = [a EXCEPT !.publisher = accepted,
                             !.publisher_driver = IF accepted THEN a.drivers ELSE 0,
                             !.call = [AuthCall(auth, "restore", accepted) EXCEPT
                                          !.found_dead = FALSE,
                                          !.loaded = loaded, !.applied = applied]]
    /\ AuthFrame

\* api.py:278-311  POST /api/auth/login: a new XHSAuthManager replaces the global
\* one, which is not closed; login() on the new one; a new XHSPublisher on its
\* driver if login() returned True, else the global publisher stays.  The driver
\* of the replaced manager stays alive while the publisher refers to it; once
\* nothing refers to it, collected says whether its browser was ended
ApiLogin(applied, load_raises, url_has_login, element_found, check_raises, method, outcome, collected) ==
    /\ auth.drivers < MaxDrivers
    /\ outcome # "interrupt"
    /\ collected => is_driver_alive(auth)
    /\ LoginReads(NewManager(auth.cookies), applied, load_raises, url_has_login,
                  element_found, check_raises, method, outcome)
    /\ LET new == [NewManager(auth.cookies) EXCEPT
                      !.drivers = auth.drivers, !.publisher = auth.publisher,
                      !.publisher_driver = auth.publisher_driver,
                      !.orphans = auth.orphans]
       IN  \E res \in {login(new, applied, load_raises, url_has_login, element_found,
                              check_raises, method, outcome)} :
             LET made == res.ok /\ is_driver_alive(res.auth)
                 held == IF made THEN res.auth.drivers ELSE auth.publisher_driver
                 left == IF /\ is_driver_alive(auth)
                            /\ (auth.publisher /\ held = auth.drivers) \/ ~collected
                         THEN {auth.drivers} ELSE {}
             IN  auth' = [res.auth EXCEPT
                            !.publisher = @ \/ made,
                            !.publisher_driver = held,
                            !.orphans = @ \cup left,
                            !.call = [AuthCall(auth, "login", res.ok) EXCEPT
                                        !.loaded = res.loaded, !.applied = applied,
                                        !.checked = res.checked, !.fresh = res.fresh,
                                        !.flows = res.flows, !.method = method,
                                        !.saved = res.saved, !.new_manager = TRUE]]
    /\ AuthFrame

\* api.py:314-358, workflow.py:293-329  publish_with_retry on the driver the
\* publisher was created with; XHSPublisher never quits the driver
Publish ==
    /\ auth.publisher
    /\ auth' = [auth EXCEPT !.call = AuthCall(auth, "publish", TRUE)]
    /\ AuthFrame

\* XHSAuthManager.close (xhs_auth.py:688-698)
Close ==
    /\ auth' = [auth EXCEPT !.driver = "none", !.logged_in = FALSE, !.confirmed = FALSE,
                            !.call = AuthCall(auth, "close", TRUE)]
    /\ AuthFrame

InitAuth ==
    /\ InitContent
    /\ vTitle = EmptyStr
    /\ vBody = EmptyStr
    /\ vResult = NotCalled
    /\ retry = NoRetry
    /\ flow = NoFlow
    /\ auth \in {NewManager(cookies) : cookies \in CookieFiles}
    /\ pub = NoPub

NextAuth ==
    \/ DriverDies
    \/ EnsureDriver
    \/ \E force_check \in BOOLEAN, c \in CheckInputs :
            IsLoggedIn(force_check, c[1], c[2], c[3])
    \/ \E l \in LoadInputs : LoadSession(l[1], l[2])
    \/ \E l \in LoadInputs, c \in CheckInputs,
          method \in LoginMethods, outcome \in FreshOutcomes :
            Login(l[1], l[2], c[1], c[2], c[3], method, outcome)
    \/ \E l \in LoadInputs : InitAuthManager(l[1], l[2])
    \/ \E l \in LoadInputs, c \in CheckInputs, method \in LoginMethods,
          outcome \in FreshOutcomes, collected \in BOOLEAN :
            ApiLogin(l[1], l[2], c[1], c[2], c[3], method, outcome, collected)
    \/ Publish
    \/ Close

SpecAuth == InitAuth /\ [][NextAuth]_vars

(***************************************************************************)
(* publish_with_retry on bounded inputs: every answer sequence of the stub *)
(* publish, one answer longer than the largest max_attempts.               *)
(***************************************************************************)
\* the largest max_attempts
MaxAttempts == 4

OutcomeSeqs == [1..(MaxAttempts + 1) -> BOOLEAN]

\* publish_with_retry(content, retry.max_attempts) is called and returns
PublishWithRetry ==
    /\ ~retry.returned
    /\ \E res \in {publish_with_retry(retry.outcomes, retry.max_attempts)} :
        retry' = [retry EXCEPT !.returned = TRUE, !.result = res.result, !.log = res.log]
    /\ UNCHANGED <<rows, nextId, clock, hashes, last, vTitle, vBody, vResult, flow, auth, pub>>

InitRetry ==
    /\ InitContent
    /\ vTitle = EmptyStr
    /\ vBody = EmptyStr
    /\ vResult = NotCalled
    /\ retry \in [outcomes : OutcomeSeqs, max_attempts : 1..MaxAttempts,
                  returned : {FALSE}, result : {FALSE}, log : {<< >>}]
    /\ flow = NoFlow
    /\ auth = NoAuth
    /\ pub = NoPub

NextRetry == PublishWithRetry

SpecRetry == InitRetry /\ [][NextRetry]_vars

(***************************************************************************)
(* publish_with_retry and the clock: the events of one call in order, the  *)
(* answers of publish and every time.sleep the call makes.                 *)
(***************************************************************************)
\* the largest retry_delay, in seconds
MaxDelay == 2

\* publisher.py:1232-1240  range(retry_delay, 0, -1): one time.sleep(1) per
\* remaining second; _init_status_overlay and _update_status catch Exception,
\* so the except branch at 1241-1242 is not taken
countdown(retry_delay) == [i \in 1..retry_delay |-> "sleep_1s"]

\* the countdown entered after every failed attempt, the last one included
countdown_follows_any_failure(attempt, max_attempts) == TRUE

\* publisher.py:1227  if attempt < max_attempts
countdown_follows(attempt, max_attempts) == attempt < max_attempts

\* publisher.py:1221-1247  the for loop from `attempt` on; after the loop the
\* failure status and _remove_status_overlay(5), which sleeps before its script
RECURSIVE retry_events(_, _, _, _, _)
retry_events(outcomes, max_attempts, retry_delay, attempt, events) ==
    IF attempt > max_attempts
    THEN [result |-> FALSE, events |-> Append(events, "remove_overlay")]
    ELSE IF outcomes[attempt]
    THEN [result |-> TRUE, events |-> Append(events, "published")]
    ELSE retry_events(outcomes, max_attempts, retry_delay, attempt + 1,
                      Append(events, "failed")
                      \o (IF countdown_follows(attempt, max_attempts)
                          THEN countdown(retry_delay) ELSE << >>))

\* publish_with_retry(content, max_attempts, retry_delay) is called and returns
PublishWithRetryTimed ==
    /\ ~retry.returned
    /\ \E res \in {retry_events(retry.outcomes, retry.max_attempts, retry.retry_delay,
                                 1, << >>)} :
        retry' = [retry EXCEPT !.returned = TRUE, !.result = res.result,
                               !.events = res.events]
    /\ UNCHANGED <<rows, nextId, clock, hashes, last, vTitle, vBody, vResult, flow, auth, pub>>

InitWait ==
    /\ InitContent
    /\ vTitle = EmptyStr
    /\ vBody = EmptyStr
    /\ vResult = NotCalled
    /\ retry \in [outcomes : OutcomeSeqs, max_attempts : 0..MaxAttempts,
                  retry_delay : 0..MaxDelay, returned : {FALSE}, result : {FALSE},
                  events : {<< >>}]
    /\ flow = NoFlow
    /\ auth = NoAuth
    /\ pub = NoPub

NextWait == PublishWithRetryTimed

SpecWait == InitWait /\ [][NextWait]_vars

(***************************************************************************)
(* XHSPublisher.publish: the three mode sequences.  A mode is a sequence   *)
(* of steps; a step is the helper it calls and whether the mode returns    *)
(* False when the helper does.  env gives what each helper of the attempt  *)
(* returns, by its position in the sequence; overlay_ok says whether the   *)
(* scripts of the status overlay run or raise.                             *)
(***************************************************************************)
PublishModes == {"image_text_upload", "image_text_compose", "long_article"}

\* the paragraphs of a body in image_text_compose
MaxParagraphs == 2

Step(name, index, critical) == [name |-> name, index |-> index, critical |-> critical]

\* publisher.py:1075-1089  the loop over the paragraphs: 再写一张 for every
\* paragraph but the first, then _fill_compose_slide; both only log a failure
RECURSIVE compose_slides(_, _)
compose_slides(i, paragraphs) ==
    IF i > paragraphs THEN << >>
    ELSE (IF i > 1 THEN <<Step("add_slide", i, FALSE)>> ELSE << >>)
         \o <<Step("fill_slide", i, FALSE)>>
         \o compose_slides(i + 1, paragraphs)

\* publisher.py:957-1009, 1050-1106, 1108-1162  images: content.images is not
\* empty; paragraphs: the non-empty lines of the body
mode_steps(mode, images, paragraphs) ==
    CASE mode = "image_text_upload" ->
            <<Step("navigate", 0, TRUE)>>
            \o (IF images THEN <<Step("upload_images", 0, TRUE)>> ELSE << >>)
            \o <<Step("fill_title", 0, TRUE), Step("fill_description", 0, TRUE),
                 Step("submit", 0, TRUE)>>
      [] mode = "image_text_compose" ->
            <<Step("navigate", 0, TRUE)>>
            \o compose_slides(1, paragraphs)
            \o <<Step("fill_title", 0, TRUE), Step("submit", 0, TRUE)>>
      [] mode = "long_article" ->
            <<Step("navigate", 0, TRUE), Step("fill_title", 0, TRUE),
              Step("fill_content", 0, TRUE)>>
            \o (IF images THEN <<Step("upload_images", 0, FALSE)>> ELSE << >>)
            \o <<Step("auto_format", 0, FALSE), Step("submit", 0, TRUE)>>

\* a status update whose exception leaves the method that called it
publisher_update_status_raising(st, overlay_ok) ==
    IF overlay_ok THEN [st EXCEPT !.overlay = @ + 1] ELSE [st EXCEPT !.raised = TRUE]

\* publisher.py:184-227, 229-245  _update_status and _remove_status_overlay run
\* their scripts inside try/except Exception
publisher_update_status(st, overlay_ok) ==
    IF overlay_ok THEN [st EXCEPT !.overlay = @ + 1] ELSE st

\* one attempt: the steps in order; a status update before each step, one more
\* when the attempt ends; an exception is caught by publish (1197-1202)
RECURSIVE run_steps(_, _, _, _, _)
run_steps(steps, i, env, overlay_ok, st) ==
    LET st1 == publisher_update_status(st, overlay_ok)
        st2 == [st1 EXCEPT !.log = Append(@, steps[i])]
        done == publisher_update_status(st2, overlay_ok)
    IN  IF st1.raised THEN [st1 EXCEPT !.result = FALSE]
        ELSE IF steps[i].name = "submit"
        THEN [done EXCEPT !.result = env[i] /\ ~done.raised]
        ELSE IF ~env[i] /\ steps[i].critical THEN [done EXCEPT !.result = FALSE]
        ELSE run_steps(steps, i + 1, env, overlay_ok, st2)

\* publisher.py:1166-1202
publish(mode, images, paragraphs, env, overlay_ok) ==
    run_steps(mode_steps(mode, images, paragraphs), 1, env, overlay_ok,
              [log |-> << >>, overlay |-> 0, raised |-> FALSE, result |-> FALSE])

\* the answers of the helpers of one attempt
Envs(mode, images, paragraphs) ==
    [1..Len(mode_steps(mode, images, paragraphs)) -> BOOLEAN]

\* publish_with_retry(content, retry_attempts, retry_delay) is called
NewPublish(mode, images, paragraphs, overlay_ok) ==
    [op |-> "publish", mode |-> mode, images |-> images, paragraphs |-> paragraphs,
     overlay_ok |-> overlay_ok, attempt |-> 0, env |-> << >>, log |-> << >>,
     ok |-> FALSE, result |-> "none"]

PubFrame ==
    UNCHANGED <<rows, nextId, clock, hashes, last, vTitle, vBody, vResult, retry, flow, auth>>

\* publisher.py:1223-1247  one iteration of the loop of publish_with_retry: the
\* attempt, then return True, or the countdown, or after the last attempt the
\* failure status and return False
PublishAttempt(env) ==
    /\ pub.result = "none"
    /\ pub.attempt < RetryAttempts
    /\ \E res \in {publish(pub.mode, pub.images, pub.paragraphs, env, pub.overlay_ok)} :
         pub' = [pub EXCEPT !.attempt = @ + 1, !.env = env, !.log = res.log,
                            !.ok = res.result,
                            !.result = IF res.result THEN "true"
                                       ELSE IF pub.attempt + 1 = RetryAttempts THEN "false"
                                       ELSE "none"]
    /\ PubFrame

InitPublish ==
    /\ InitContent
    /\ vTitle = EmptyStr
    /\ vBody = EmptyStr
    /\ vResult = NotCalled
    /\ retry = NoRetry
    /\ flow = NoFlow
    /\ auth = NoAuth
    /\ pub \in {NewPublish(mode, images, paragraphs, overlay_ok) :
                    mode \in PublishModes, images \in BOOLEAN,
                    paragraphs \in 1..MaxParagraphs, overlay_ok \in BOOLEAN}

NextPublish ==
    \E env \in Envs(pub.mode, pub.images, pub.paragraphs) : PublishAttempt(env)

SpecPublish == InitPublish /\ [][NextPublish]_vars

(***************************************************************************)
(* XHSPublisher._submit_post with _find_and_click and _click_element.  The  *)
(* page is given by the state of each candidate selector, by what happens   *)
(* to each click command in the order of issue, by the wait for the        *)
(* success indicator and by the URL read after it.                         *)
(***************************************************************************)
\* the selectors of a candidate list (publish_selectors has 10)
MaxSelectors == 2

\* the click commands whose outcome is given; a later command fails undelivered
MaxClicks == 3

\* publisher.py:297-303  the five strategies of _click_element
ClickStrategies == 5

\* publisher.py:284  max_retries: int = 3
ClickRetries == 3

\* a selector: the wait times out, the element is present and not displayed, the
\* element is displayed
CandidateStates == {"absent", "hidden", "visible"}

\* a click command: it returns; it raises before the page received the click
\* (ElementClickIntercepted, ElementNotInteractable); it raises another Exception
\* after the browser dispatched the click (a page-load timeout of the click, an
\* error of the page's click handler run by execute_script); it raises
\* StaleElementReferenceException
ClickOutcomes == {"clicked", "intercepted", "raised_after", "stale"}

\* the wait for the success indicator: found, TimeoutException, another exception
IndicatorOutcomes == {"found", "timeout", "raises"}

\* driver.current_url after the wait timed out, by the substrings the code tests,
\* or an exception reading it
Urls ==
    {[has_publish |-> TRUE, has_success |-> FALSE, raises |-> FALSE],
     [has_publish |-> TRUE, has_success |-> TRUE, raises |-> FALSE],
     [has_publish |-> FALSE, has_success |-> FALSE, raises |-> FALSE],
     [has_publish |-> TRUE, has_success |-> FALSE, raises |-> TRUE]}

\* what one strategy of _click_element can meet besides ClickOutcomes:
\* is_displayed() returns False, raises, or raises StaleElementReferenceException
CheckOutcomes == {"hidden", "check_raises", "check_stale"}

\* only the two named exceptions caught, without the except Exception branch
moves_to_next_strategy_named_only(outcome) == outcome \in {"intercepted", "hidden"}

\* publisher.py:308-310, 316-321, 325-327  the continue statements: the element
\* is not displayed, a click exception that is named, any other Exception
moves_to_next_strategy(outcome) ==
    outcome \in {"intercepted", "hidden", "raised_after", "check_raises"}

\* publisher.py:280-335  n: the strategies tried on this element so far; k: the
\* strategies tried so far in this step; delivered: the clicks the page got
RECURSIVE click_element(_, _, _, _)
click_element(clicks, k, n, delivered) ==
    IF n = ClickStrategies * ClickRetries
    THEN [ok |-> FALSE, k |-> k, delivered |-> delivered, tried |-> n, raised |-> FALSE]
    ELSE LET outcome == IF k < Len(clicks) THEN clicks[k + 1] ELSE "intercepted"
             now == IF outcome = "raised_after" THEN delivered + 1 ELSE delivered
         IN  IF outcome = "clicked"
             THEN [ok |-> TRUE, k |-> k + 1, delivered |-> delivered + 1,
                   tried |-> n + 1, raised |-> FALSE]
             ELSE IF outcome \in {"stale", "check_stale"}
             THEN [ok |-> FALSE, k |-> k + 1, delivered |-> delivered,
                   tried |-> n + 1, raised |-> FALSE]
             ELSE IF moves_to_next_strategy(outcome)
             THEN click_element(clicks, k + 1, n + 1, now)
             ELSE [ok |-> FALSE, k |-> k + 1, delivered |-> now,
                   tried |-> n + 1, raised |-> TRUE]

\* publisher.py:337-388  the selectors in order; a displayed element is clicked,
\* and the next selector is tried when _click_element returns False
RECURSIVE find_and_click(_, _, _, _, _)
find_and_click(cands, i, clicks, k, delivered) ==
    IF i > Len(cands) THEN [ok |-> FALSE, k |-> k, delivered |-> delivered]
    ELSE IF cands[i] # "visible" THEN find_and_click(cands, i + 1, clicks, k, delivered)
    ELSE LET c == click_element(clicks, k, 0, delivered)
         IN  IF c.ok THEN c
             ELSE find_and_click(cands, i + 1, clicks, c.k, c.delivered)

\* a URL check that takes every URL for a redirect
url_left_submit_always(url) == TRUE

\* publisher.py:938-939  'publish' not in current_url or 'success' in current_url
url_left_submit(url) == ~url.has_publish \/ url.has_success

\* publisher.py:896-953
submit_post(cands, clicks, indicator, url) ==
    LET c == find_and_click(cands, 1, clicks, 0, 0)
        res == [clicked |-> c.ok, commands |-> c.k, delivered |-> c.delivered,
                waited |-> c.ok, result |-> FALSE]
    IN  IF ~c.ok THEN res
        ELSE IF indicator = "found" THEN [res EXCEPT !.result = TRUE]
        ELSE IF indicator = "raises" THEN res
        ELSE IF url.raises THEN res
        ELSE [res EXCEPT !.result = url_left_submit(url)]

\* _submit_post is about to be called on a page
NewSubmit(cands, clicks, indicator, url) ==
    [op |-> "submit", cands |-> cands, clicks |-> clicks, indicator |-> indicator,
     url |-> url, done |-> FALSE, clicked |-> FALSE, commands |-> 0, delivered |-> 0,
     waited |-> FALSE, result |-> FALSE]

\* XHSPublisher._submit_post
SubmitPost ==
    /\ pub.op = "submit"
    /\ ~pub.done
    /\ \E res \in {submit_post(pub.cands, pub.clicks, pub.indicator, pub.url)} :
         pub' = [pub EXCEPT !.done = TRUE, !.clicked = res.clicked,
                            !.commands = res.commands, !.delivered = res.delivered,
                            !.waited = res.waited, !.result = res.result]
    /\ PubFrame

InitSubmit ==
    /\ InitContent
    /\ vTitle = EmptyStr
    /\ vBody = EmptyStr
    /\ vResult = NotCalled
    /\ retry = NoRetry
    /\ flow = NoFlow
    /\ auth = NoAuth
    /\ pub \in {NewSubmit(cands, clicks, indicator, url) :
                    cands \in [1..MaxSelectors -> CandidateStates],
                    clicks \in [1..MaxClicks -> ClickOutcomes],
                    indicator \in IndicatorOutcomes, url \in Urls}

NextSubmit == SubmitPost

SpecSubmit == InitSubmit /\ [][NextSubmit]_vars

(***************************************************************************)
(* _click_element on one element: what each strategy meets, in the order   *)
(* the strategies run; after the listed ones every strategy is intercepted.*)
(***************************************************************************)
NewClick(clicks) ==
    [op |-> "click", clicks |-> clicks, done |-> FALSE, ok |-> FALSE, tried |-> 0,
     raised |-> FALSE]

\* XHSPublisher._click_element
ClickElement ==
    /\ pub.op = "click"
    /\ ~pub.done
    /\ \E res \in {click_element(pub.clicks, 0, 0, 0)} :
         pub' = [pub EXCEPT !.done = TRUE, !.ok = res.ok, !.tried = res.tried,
                            !.raised = res.raised]
    /\ PubFrame

InitClick ==
    /\ InitContent
    /\ vTitle = EmptyStr
    /\ vBody = EmptyStr
    /\ vResult = NotCalled
    /\ retry = NoRetry
    /\ flow = NoFlow
    /\ auth = NoAuth
    /\ pub \in {NewClick(clicks) :
                    clicks \in [1..MaxClicks -> ClickOutcomes \cup CheckOutcomes]}

NextClick == ClickElement

SpecClick == InitClick /\ [][NextClick]_vars

(***************************************************************************)
(* _navigate_to_long_article: the page after driver.get, by whether it     *)
(* already shows an editor and what the selectors of the new-creation      *)
(* button find.                                                            *)
(***************************************************************************)
\* publisher.py:590-657  get_raises: driver.get or the page-load wait raises;
\* commands: the click commands sent to candidates of the new-creation button;
\* editor_checked: _check_editor_present was called
navigate_to_long_article(get_raises, cands, clicks, editor) ==
    IF get_raises
    THEN [ok |-> FALSE, commands |-> 0, delivered |-> 0, editor_checked |-> FALSE]
    ELSE LET c == find_and_click(cands, 1, clicks, 0, 0)
         IN  [ok |-> TRUE, commands |-> c.k, delivered |-> c.delivered,
              editor_checked |-> ~c.ok]

NewNavigate(get_raises, cands, clicks, editor) ==
    [op |-> "navigate", get_raises |-> get_raises, cands |-> cands, clicks |-> clicks,
     editor |-> editor, done |-> FALSE, ok |-> FALSE, commands |-> 0, delivered |-> 0,
     editor_checked |-> FALSE]

\* XHSPublisher._navigate_to_long_article
NavigateToLongArticle ==
    /\ pub.op = "navigate"
    /\ ~pub.done
    /\ \E res \in {navigate_to_long_article(pub.get_raises, pub.cands, pub.clicks,
                                             pub.editor)} :
         pub' = [pub EXCEPT !.done = TRUE, !.ok = res.ok, !.commands = res.commands,
                            !.delivered = res.delivered,
                            !.editor_checked = res.editor_checked]
    /\ PubFrame

InitNavigate ==
    /\ InitContent
    /\ vTitle = EmptyStr
    /\ vBody = EmptyStr
    /\ vResult = NotCalled
    /\ retry = NoRetry
    /\ flow = NoFlow
    /\ auth = NoAuth
    /\ pub \in {NewNavigate(get_raises, cands, clicks, editor) :
                    get_raises \in BOOLEAN,
                    cands \in [1..MaxSelectors -> CandidateStates],
                    clicks \in [1..MaxClicks -> ClickOutcomes],
                    editor \in BOOLEAN}

NextNavigate == NavigateToLongArticle

SpecNavigate == InitNavigate /\ [][NextNavigate]_vars

(***************************************************************************)
(* The fill steps: _fill_title, _fill_description,                         *)
(* _fill_long_article_content and _fill_compose_slide locate their element *)
(* with the same loop over a list of selectors and then act on it.         *)
(***************************************************************************)
FillSteps == {"fill_title", "fill_description", "fill_content", "fill_slide"}

\* the element of the first selector that is displayed, 0 if there is none
RECURSIVE first_visible(_, _)
first_visible(cands, i) ==
    IF i > Len(cands) THEN 0
    ELSE IF cands[i] = "visible" THEN i
    ELSE first_visible(cands, i + 1)

\* publisher.py:723-731 (and 770-778, 816-824, 1023-1031)  the variable is
\* assigned by every wait that finds an element; the loop breaks on the first
\* that is displayed; found: the element the variable holds, 0 for None
RECURSIVE locate(_, _, _)
locate(cands, i, found) ==
    IF i > Len(cands) THEN found
    ELSE IF cands[i] = "absent" THEN locate(cands, i + 1, found)
    ELSE IF cands[i] = "visible" THEN i
    ELSE locate(cands, i + 1, i)

\* publisher.py:712-753  acts: whether click, clear and send_keys on the element
\* return or raise; target: the element scrolled to and clicked, 0 if none
fill(cands, acts) ==
    LET element == locate(cands, 1, 0)
    IN  IF element = 0 THEN [result |-> FALSE, target |-> 0]
        ELSE [result |-> acts, target |-> element]

NewFill(step, cands, acts) ==
    [op |-> "fill", step |-> step, cands |-> cands, acts |-> acts, done |-> FALSE,
     result |-> FALSE, target |-> 0]

\* XHSPublisher._fill_title and the three other fill steps
Fill ==
    /\ pub.op = "fill"
    /\ ~pub.done
    /\ \E res \in {fill(pub.cands, pub.acts)} :
         pub' = [pub EXCEPT !.done = TRUE, !.result = res.result, !.target = res.target]
    /\ PubFrame

InitLocate ==
    /\ InitContent
    /\ vTitle = EmptyStr
    /\ vBody = EmptyStr
    /\ vResult = NotCalled
    /\ retry = NoRetry
    /\ flow = NoFlow
    /\ auth = NoAuth
    /\ pub \in {NewFill(step, cands, acts) :
                    step \in FillSteps, cands \in [1..MaxSelectors -> CandidateStates],
                    acts \in BOOLEAN}

NextLocate == Fill

SpecLocate == InitLocate /\ [][NextLocate]_vars

(***************************************************************************)
(* The status machine (Spec).                                              *)
(***************************************************************************)
\* C1: approve(id) returns true, and sets the status to approved, only when the
\* row's status is pending; on a row that is approved, published, rejected or
\* failed it returns false and leaves the row unchanged.
C1_ApproveOnlyFromPending ==
    [][last'.op = "approve" =>
        LET id == last'.id
            pending == id \in DOMAIN rows /\ rows[id].status = "pending"
        IN  /\ last'.ok <=> pending
            /\ last'.ok => rows'[id].status = "approved"
            /\ ~pending => rows' = rows]_vars

\* C2: retryFailed(id) returns true and sets the status to approved iff the row
\* exists and its status is failed; for every other status, and for an unknown
\* id, it returns false and leaves the table unchanged.
C2_RetryOnlyFromFailed ==
    [][last'.op = "retryFailed" =>
        LET id == last'.id
            failed == id \in DOMAIN rows /\ rows[id].status = "failed"
        IN  /\ last'.ok <=> failed
            /\ failed => /\ DOMAIN rows' = DOMAIN rows
                         /\ rows'[id].status = "approved"
                         /\ \A j \in DOMAIN rows \ {id} : rows'[j] = rows[j]
            /\ ~failed => rows' = rows]_vars

\* C2, witness: a retry of a failed row has returned true with a second row stored
C2_Witness ==
    /\ last.op = "retryFailed"
    /\ last.ok
    /\ rows[last.id].status = "approved"
    /\ Cardinality(DOMAIN rows) = 2

\* C3: every stored row has published_at non-null iff its status is published.
C3_PublishedAtIffPublished ==
    \A i \in DOMAIN rows :
        rows[i].published_at # NoTimestamp <=> rows[i].status = "published"

\* C3, witness: the only row ever created was published and has then been marked
\* failed, which cleared its published_at
C3_Witness ==
    /\ last.op = "markFailed"
    /\ last.ok
    /\ nextId = 2
    /\ clock >= 1
    /\ rows[last.id].status = "failed"
    /\ rows[last.id].published_at = NoTimestamp

\* C4: after markFailed(id, e) followed by retryFailed(id) the row's status is
\* approved and its error_message is still e.
C4_RetryKeepsError ==
    [][(/\ last.op = "markFailed"
        /\ last.ok
        /\ last'.op = "retryFailed"
        /\ last'.id = last.id)
       => /\ rows'[last.id].status = "approved"
          /\ rows'[last.id].error_message = last.msg]_vars

(***************************************************************************)
(* Creation and the dedup index (SpecDedup).                               *)
(***************************************************************************)
Duplicate == "Duplicate content detected"

\* C5: with checkDuplicates = true, createValidated called twice with the same
\* valid (title, body), the first call having stored the row: the second call
\* returns no id with the reason "Duplicate content detected", and the number of
\* stored rows is what it was before the second call.
C5_SecondCallIsDuplicate ==
    [][(/\ last.op = "createValidated" /\ last.check /\ last.id # NoId
        /\ last'.op = "createValidated" /\ last'.check
        /\ last'.title = last.title
        /\ last'.body = last.body
        /\ last'.images = last.images)
       => /\ last'.id = NoId
          /\ last'.msg = Duplicate
          /\ Cardinality(DOMAIN rows') = Cardinality(DOMAIN rows)]_vars

\* C5, witness: a checked call was refused as a duplicate of a stored row
C5_Witness ==
    /\ last.op = "createValidated"
    /\ last.check
    /\ last.msg = Duplicate
    /\ \E i \in DOMAIN rows : rows[i].title = last.title /\ rows[i].body = last.body

\* C6: after any sequence of creations (createValidated or the plain create) and
\* deletes the dedup index is the set of the hashes of the stored rows.
C6_IndexIsHashesOfRows ==
    hashes = {generate_content_hash(rows[i].title, rows[i].body) : i \in DOMAIN rows}

\* C9: contents that differ in the title or in the body have different dedup keys:
\* createValidated reports a duplicate only when some stored row has the very
\* (title, body) of the call.
C9_DuplicateOnlyOfEqualContent ==
    (last.op = "createValidated" /\ last.msg = Duplicate)
    => \E i \in DOMAIN rows : rows[i].title = last.title /\ rows[i].body = last.body

\* the reason of the first check that fails, in the order validation, image
\* extensions, duplicate, store
FirstFailure(h, title, body, images, check) ==
    IF ~validate_content(title, body).ok THEN validate_content(title, body).error
    ELSE IF \E i \in 1..Len(images) : ~is_valid_image(images[i]) THEN "Invalid image file"
    ELSE IF check /\ generate_content_hash(title, body) \in h THEN Duplicate
    ELSE "Failed to create content"

\* C10: whenever createValidated returns a reason instead of an id, no row has
\* been stored and the dedup index is unchanged, and the reason is that of the
\* first failing check in the order validation, image extensions, duplicate;
\* a hash joins the index only together with the row that is persisted.
C10_RefusalChangesNothing ==
    [][last'.op = "createValidated" =>
        /\ last'.id = NoId =>
              /\ rows' = rows
              /\ hashes' = hashes
              /\ last'.msg = FirstFailure(hashes, last'.title, last'.body,
                                          last'.images, last'.check)
        /\ last'.id # NoId =>
              /\ last'.id \in DOMAIN rows' \ DOMAIN rows
              /\ last'.msg = ""
        /\ hashes' # hashes => last'.id \in DOMAIN rows' \ DOMAIN rows]_vars

\* C10, witness: a call that fails all three checks (its title is empty, an image
\* has a refused extension, its hash is indexed) was refused for its title
C10_Witness ==
    /\ last.op = "createValidated"
    /\ last.id = NoId
    /\ last.check
    /\ last.msg = "Title cannot be empty"
    /\ \E i \in 1..Len(last.images) : ~is_valid_image(last.images[i])
    /\ generate_content_hash(last.title, last.body) \in hashes

(***************************************************************************)
(* validate_content (SpecValidate).                                        *)
(***************************************************************************)
\* a field that is empty, or blank: what validate_content reports as empty
Blank(s) == StrLen(Strip(s)) = 0

\* a field that, taken on its own, holds a control character or some character
\* n or more times in a row
FieldMatchesSpam(s, n) ==
    \/ \E i \in 1..Len(s) : WordLen(s[i][1]) = 1 /\ s[i][1] # "\n" /\ s[i][2] >= n
    \/ ControlCharMatch(s)

\* C7: validate(title, body) rejects iff the title is empty, longer than 100,
\* the body is empty, longer than 10,000, or the title or the body, each taken
\* on its own, matches a spam pattern.  Read in the claim's favour: a blank field
\* counts as empty, and the run a field needs to match is either the 10 of the
\* specification or the 11 of the regular expression.
C7_ValidateRejectsIff ==
    vResult # NotCalled =>
        \E n \in {SpamRepeat, SpamRepeat + 1} :
            ~vResult.ok <=>
                \/ Blank(vTitle)
                \/ StrLen(vTitle) > MaxTitleLen
                \/ Blank(vBody)
                \/ StrLen(vBody) > MaxBodyLen
                \/ FieldMatchesSpam(vTitle, n)
                \/ FieldMatchesSpam(vBody, n)

\* the lengths of the runs of one character in s
Runs(s) == {s[i][2] : i \in {j \in 1..Len(s) : WordLen(s[j][1]) = 1}}

\* C8: the repeated-character pattern has threshold 10: content in which some
\* character occurs exactly 10 times consecutively in the title or in the body
\* is rejected, and otherwise valid content whose longest run is 9 is accepted.
C8_RepeatThresholdIsTen ==
    vResult # NotCalled =>
        /\ (10 \in Runs(vTitle) \cup Runs(vBody)) => ~vResult.ok
        /\ (/\ ~Blank(vTitle) /\ StrLen(vTitle) <= MaxTitleLen
            /\ ~Blank(vBody) /\ StrLen(vBody) <= MaxBodyLen
            /\ ~ControlCharMatch(Concat(vTitle, vBody))
            /\ 9 \in Runs(Concat(vTitle, vBody))
            /\ \A n \in Runs(Concat(vTitle, vBody)) : n <= 9) => vResult.ok

(***************************************************************************)
(* publish_with_retry (SpecRetry).                                         *)
(***************************************************************************)
\* the index of the first successful answer of the stub, 0 when there is none
FirstSuccess(outcomes) ==
    IF \E i \in 1..Len(outcomes) : outcomes[i]
    THEN CHOOSE i \in 1..Len(outcomes) :
            outcomes[i] /\ \A j \in 1..(i - 1) : ~outcomes[j]
    ELSE 0

\* C11: for every sequence of publish outcomes and every maxAttempts >= 1,
\* publishWithRetry invokes publish exactly min(k, maxAttempts) times, k being
\* the index of the first successful attempt (infinite if none), returns true
\* iff k <= maxAttempts, and never invokes publish again after a success.
C11_RetryCallsAndResult ==
    (retry.returned /\ retry.max_attempts >= 1) =>
        LET k == FirstSuccess(retry.outcomes)
            within == k # 0 /\ k <= retry.max_attempts
            calls == IF within THEN k ELSE retry.max_attempts
        IN  /\ retry.log = SubSeq(retry.outcomes, 1, calls)
            /\ retry.result <=> within
            /\ \A i \in 1..(Len(retry.log) - 1) : ~retry.log[i]

\* C11, witness: the stub failed on calls 1 and 2 and succeeded on call 3, with
\* max_attempts = 3: true was returned after exactly three calls
C11_Witness ==
    /\ retry.returned
    /\ retry.max_attempts = 3
    /\ retry.log = <<FALSE, FALSE, TRUE>>
    /\ retry.result

(***************************************************************************)
(* The workflow and the publish endpoint (SpecFlow).                       *)
(***************************************************************************)
\* the row has status failed and an error message that is neither NULL nor empty
FailedWithError(row) ==
    /\ row.status = "failed"
    /\ row.error_message \notin {NoMessage, ""}

\* C12: when publishWithRetry ends without a success (all maxAttempts attempts
\* failed, or the call is abandoned with an error), the content row ends with
\* status failed and a non-empty error_message, on the path of the workflow's
\* publish step and on the path of the publish endpoint.
C12_UnsuccessfulPublishFailsRow ==
    [][/\ (flow.pc = "publish" /\ flow'.pc = "finally" /\ flow'.retried = "false")
            => FailedWithError(rows'[flow.content_id])
       /\ (last' # last /\ last'.op \in {"publish", "publishAbandoned"} /\ ~last'.ok)
            => FailedWithError(rows'[last'.id])]_vars

\* C13: in either run mode, when the approval decision is a rejection, login and
\* publish are never invoked in that run, the content row ends rejected, and at
\* the end of the run the LoginPlatform and PublishContent steps are each pending
\* or skipped.
C13_RejectionStopsBeforeLogin ==
    (flow.pc \in {"finally", "done"} /\ flow.rejected) =>
        /\ flow.logins = 0
        /\ flow.publishes = 0
        /\ \A i \in 1..Len(flow.ops) : flow.ops[i] \notin {"login", "publish"}
        /\ rows[flow.content_id].status = "rejected"
        /\ flow.steps[5] \in {"pending", "skipped"}
        /\ flow.steps[6] \in {"pending", "skipped"}

\* C13, witness: an interactive run has ended after "n" at the prompt
C13_Witness ==
    /\ flow.pc = "done"
    /\ flow.rejected
    /\ flow.interactive
    /\ flow.result = "false"
    /\ rows[flow.content_id].status = "rejected"

StepMoves ==
    {<<"pending", "in_progress">>, <<"in_progress", "completed">>,
     <<"in_progress", "failed">>, <<"in_progress", "skipped">>}

\* C15: in both run modes operation i records its status changes on step i, so
\* every step only moves pending -> in_progress -> {completed, failed, skipped},
\* and a run in which all six operations succeed ends with all six steps
\* completed.
C15_OperationWritesOwnStep ==
    [][(flow.pc \in Ops) =>
        /\ \A i \in 1..6 :
              flow'.steps[i] # flow.steps[i] =>
                  /\ i = OpIndex(flow.pc)
                  /\ <<flow.steps[i], flow'.steps[i]>> \in StepMoves
        /\ flow'.result = "true" => \A i \in 1..6 : flow'.steps[i] = "completed"]_vars

\* C16: every run emits the step summary exactly once, after its last operation,
\* whether it returns true, returns false or is ended by an exception or an
\* interrupt raised inside a step.
C16_SummaryExactlyOnce ==
    /\ flow.pc \in Ops \cup {"finally"} => flow.summaries = 0
    /\ flow.pc = "done" => flow.summaries = 1

\* C16, witness: a run ended by Ctrl+C at the approval prompt has printed its
\* summary
C16_Witness ==
    /\ flow.pc = "done"
    /\ flow.result = "raised"
    /\ flow.ops = SubSeq(OpOrder, 1, 4)
    /\ flow.summaries = 1

\* C17: at the end of every run, also of one whose blocking wait was ended by a
\* timeout or by an interrupt, no step is left in_progress.
C17_NoStepLeftInProgress ==
    flow.pc = "done" => \A i \in 1..6 : flow.steps[i] # "in_progress"

\* C18: every row the import step stores has passed validate and the duplicate
\* check: an item that fails validation, or whose (title, body) hash is in the
\* dedup index, makes the step fail without storing a row.
C18_ImportValidatesAndDedups ==
    [][(flow.pc = "import" /\ DOMAIN rows' # DOMAIN rows) =>
        LET c == create_content_from_bannaflow(flow.generated)
        IN  /\ validate_content(c[1], c[2]).ok
            /\ generate_content_hash(c[1], c[2]) \notin hashes]_vars

(***************************************************************************)
(* The session manager (SpecAuth).                                         *)
(***************************************************************************)
\* C19: whenever the session manager finds the driver dead (in is_logged_in, or
\* when _ensure_driver disposes of it and creates another), the cached login flag
\* is false afterwards; hence is_logged_in without force_check never returns true
\* for a recreated driver before a login or a forced check has succeeded on it.
C19_DeadSessionClearsFlag ==
    [][auth'.call # auth.call =>
        /\ (auth'.call.op \in {"isLoggedIn", "ensureDriver"} /\ auth'.call.found_dead)
              => ~auth'.logged_in
        /\ (auth'.call.op = "isLoggedIn" /\ ~auth'.call.force /\ auth'.call.ok)
              => auth.confirmed]_vars

\* C20: a successful _load_session never by itself sets the cached login flag,
\* makes login() return true or causes a publisher to be created: login() returns
\* true only when the forced check confirmed the loaded session or the fresh
\* login succeeded, and is_logged_in(force_check=True) returns true iff the URL
\* check or the user element check succeeds.
C20_LoadedSessionIsNotLogin ==
    [][auth'.call # auth.call =>
        /\ auth'.call.op = "loadSession" =>
              /\ auth'.logged_in = auth.logged_in
              /\ auth'.publisher = auth.publisher
        /\ (auth'.call.op = "login" /\ auth'.call.ok) =>
              \/ auth'.call.loaded /\ auth'.call.checked
              \/ auth'.call.fresh \in UrlLeftLogin
        /\ (auth'.logged_in /\ ~auth.logged_in) => auth'.confirmed
        /\ (auth'.publisher /\ ~auth.publisher) =>
              auth'.call.op = "login" /\ auth'.call.ok
        /\ (auth'.call.op = "isLoggedIn" /\ auth'.call.force) =>
              (auth'.call.ok <=> (~auth'.call.found_dead /\ auth'.call.confirms))]_vars

\* C20, witness: login() loaded a session of which one cookie of two was applied,
\* the forced check did not confirm it and the fresh login failed: login()
\* returned false, the flag is false, no publisher was created
C20_Witness ==
    /\ auth.call.op = "login"
    /\ auth.call.loaded
    /\ auth.call.applied = 1
    /\ ~auth.call.checked
    /\ ~auth.call.ok
    /\ ~auth.logged_in
    /\ ~auth.publisher

\* C21: login() first attempts _load_session; if the forced check confirms the
\* loaded session it returns true and starts no fresh login flow; otherwise, for a
\* configured method sms or qr_code, it starts exactly one fresh flow and returns
\* what that flow returned.
C21_LoginShortCircuitsOrOneFlow ==
    [][(auth'.call # auth.call /\ auth'.call.op = "login"
            /\ auth'.call.method \in {"sms", "qr_code"}
            /\ auth'.call.fresh # "interrupt") =>
        IF auth'.call.loaded /\ auth'.call.checked
        THEN auth'.call.ok /\ auth'.call.flows = 0 /\ auth'.call.fresh = "none"
        ELSE /\ auth'.call.flows = 1
             /\ auth'.call.ok <=> auth'.call.fresh \in UrlLeftLogin]_vars

\* C21, witness: a login() that returned true on the saved session, no fresh flow
C21_Witness ==
    /\ auth.call.op = "login"
    /\ auth.call.loaded
    /\ auth.call.checked
    /\ auth.call.ok
    /\ auth.call.flows = 0

\* C22: a fresh login returns true iff the URL at the end of the flow has no login
\* marker; when it returns true the session has been persisted and the cached
\* login flag is true; when it returns false the cached login flag is false.
C22_FreshLoginResult ==
    [][(auth'.call # auth.call /\ auth'.call.op = "login" /\ auth'.call.flows = 1
            /\ auth'.call.fresh # "interrupt") =>
        /\ auth'.call.ok <=> auth'.call.fresh \in UrlLeftLogin
        /\ auth'.call.ok => auth'.call.saved /\ auth'.cookies = "saved" /\ auth'.logged_in
        /\ ~auth'.call.ok => ~auth'.logged_in]_vars

(***************************************************************************)
(* Recovery of the session in the workflow (SpecFlow).                     *)
(***************************************************************************)
\* C23: when the login step finds the driver dead after login(), or the publish
\* step runs on a session that is dead or not logged in, one recovery (ensure the
\* driver, login once more) is made before the step fails: the step that fails
\* has made one call of login() after the finding.
C23_OneRecoveryBeforeFailure ==
    [][/\ (flow.pc = "login" /\ flow.entered /\ flow'.pc = "finally"
              /\ flow'.session = "dead")
            => flow'.logins = flow.logins + 2
       /\ (flow.pc = "publish" /\ flow.entered /\ flow'.pc = "finally"
              /\ flow'.session \in {"dead", "logged_out"})
            => flow'.logins = flow.logins + 1]_vars

(***************************************************************************)
(* Ownership of the driver (SpecAuth).                                     *)
(***************************************************************************)
\* C24: the publisher borrows the driver of the session manager: at every publish
\* call the publisher's driver is the live driver of the current manager, the
\* publish call ends no driver, and no live driver is left without a manager
\* that owns it, also after a repeated or a failed login through the API.
C24_PublisherBorrowsOwnedDriver ==
    [][/\ (auth'.call # auth.call /\ auth'.call.op = "publish") =>
            /\ auth.publisher_driver = auth.drivers
            /\ is_driver_alive(auth)
            /\ auth'.driver = auth.driver
       /\ auth'.orphans = {}]_vars

(***************************************************************************)
(* The publisher (SpecPublish).                                            *)
(***************************************************************************)
\* the steps of long_article that the specification documents as best effort
BestEffort(mode, step) ==
    mode = "long_article" /\ step.name \in {"upload_images", "auto_format"}

\* C25: in each publish mode the steps of an attempt run in the order of the mode,
\* and when a step other than image insertion and auto-format of long_article
\* returns failure no later step is executed, submit is not reached and publish
\* returns false.
C25_FailedStepAbortsAttempt ==
    pub.attempt > 0 =>
        LET steps == mode_steps(pub.mode, pub.images, pub.paragraphs)
        IN  /\ Len(pub.log) <= Len(steps)
            /\ \A i \in 1..Len(pub.log) : pub.log[i] = steps[i]
            /\ \A i \in 1..Len(pub.log) :
                  (~pub.env[i] /\ ~BestEffort(pub.mode, steps[i])) =>
                      /\ i = Len(pub.log)
                      /\ ~pub.ok

(***************************************************************************)
(* Submitting the post (SpecSubmit).                                       *)
(***************************************************************************)
\* the URL read after the wait shows that the page left the submit page
LeftSubmitPage(url) == ~url.raises /\ (~url.has_publish \/ url.has_success)

C27_AtMostOneSubmitClick ==
    pub.done => pub.delivered <= 1

(***************************************************************************)
(* Locating the element of a fill step (SpecLocate).                       *)
(***************************************************************************)
\* C28: a fill step acts on the element of the first selector that exists and is
\* displayed; it never acts on an element that was found but is not displayed,
\* and it reports failure when no selector gives a displayed element.
C28_FillActsOnFirstVisible ==
    pub.done =>
        /\ pub.target = first_visible(pub.cands, 1)
        /\ first_visible(pub.cands, 1) = 0 => ~pub.result

(***************************************************************************)
(* The status overlay (SpecPublish).                                       *)
(***************************************************************************)
\* the attempt of the state, run again with the overlay in the other condition
OtherOverlay == publish(pub.mode, pub.images, pub.paragraphs, pub.env, ~pub.overlay_ok)

\* C29: for the same answers of the UI steps, the result of publish, the steps
\* it issued, and whether publish_with_retry returns true, returns false or goes
\* on to another attempt are the same whether every update of the status
\* overlay runs or every one raises.
C29_OverlayNeverAltersControlFlow ==
    (pub.op = "publish" /\ pub.attempt > 0) =>
        /\ OtherOverlay.result = pub.ok
        /\ OtherOverlay.log = pub.log
        /\ pub.result = IF OtherOverlay.result THEN "true"
                        ELSE IF pub.attempt = RetryAttempts THEN "false"
                        ELSE "none"

\* the overlay raises on every update; the last attempt allowed is the first
\* that publishes
C29_Witness ==
    /\ pub.op = "publish"
    /\ ~pub.overlay_ok
    /\ pub.attempt = RetryAttempts
    /\ pub.result = "true"
    /\ Len(pub.log) > 1

(***************************************************************************)
(* Calls that name no row (SpecStore).                                     *)
(***************************************************************************)
StatusOps == {"approve", "reject", "markPublished", "markFailed", "retryFailed", "delete"}

\* the positions of a list of ids that name a row of r
KnownPositions(r, ids) == {i \in 1..Len(ids) : ids[i] \in DOMAIN r}

\* C30: approve, reject, markPublished, markFailed, retryFailed and delete called
\* with an id that has no row return false and leave every row and the dedup
\* index as they were; bulkApprove returns the number of ids of its list that
\* approve accepted, which are those that have a row, and touches no other row.
C30_UnknownIdChangesNothing ==
    [][/\ (last'.op \in StatusOps /\ last'.id \notin DOMAIN rows) =>
            /\ ~last'.ok
            /\ rows' = rows
            /\ hashes' = hashes
       /\ last'.op = "bulkApprove" =>
            /\ last'.count = Cardinality(KnownPositions(rows, last'.ids))
            /\ DOMAIN rows' = DOMAIN rows
            /\ hashes' = hashes
            /\ \A id \in DOMAIN rows :
                 IF \E i \in 1..Len(last'.ids) : last'.ids[i] = id
                 THEN rows'[id].status = "approved"
                 ELSE rows'[id] = rows[id]]_vars

\* C30, witness: the store has a row and an indexed hash; bulkApprove was called
\* with the id of the row and an id that has no row, and counted one
C30_Witness ==
    /\ last.op = "bulkApprove"
    /\ Len(last.ids) = 2
    /\ last.count = 1
    /\ hashes # {}
    /\ \E i \in 1..2 : last.ids[i] \notin DOMAIN rows

\* C30, witness of a refused delete: an id that has no row, on a store that has
\* rows and indexed hashes
C30_WitnessRefusedDelete ==
    /\ last.op = "delete"
    /\ ~last.ok
    /\ last.id \notin DOMAIN rows
    /\ rows # << >>
    /\ hashes # {}

(***************************************************************************)
(* The waits of publish_with_retry (SpecWait).                             *)
(***************************************************************************)
\* the positions of the attempts among the events of a call
Attempts(events) == {i \in 1..Len(events) : events[i] \in {"published", "failed"}}

\* the seconds slept in the countdown between positions i and j
SleptBetween(events, i, j) ==
    Cardinality({k \in (i + 1)..(j - 1) : events[k] = "sleep_1s"})

\* C31: publishWithRetry waits retry_delay seconds exactly once after each failed
\* attempt that is not the last one: every two consecutive attempts are
\* separated by retry_delay seconds of countdown, no countdown precedes the
\* first attempt or follows a successful or the final failed attempt, and with
\* max_attempts = 0 there is no attempt, no countdown and the result is false.
C31_OneWaitBetweenAttempts ==
    retry.returned =>
        LET ev == retry.events
            at == Attempts(ev)
        IN  /\ \A i \in at, j \in at :
                 (i < j /\ \A k \in at : ~(i < k /\ k < j)) =>
                    /\ ev[i] = "failed"
                    /\ SleptBetween(ev, i, j) = retry.retry_delay
            /\ \A k \in 1..Len(ev) :
                 ev[k] = "sleep_1s" => \E i \in at, j \in at : i < k /\ k < j
            /\ Cardinality(at) <= retry.max_attempts
            /\ retry.max_attempts = 0 => (at = {} /\ ~retry.result)
            /\ retry.result <=> (\E i \in at : ev[i] = "published")

\* C31, witness: three attempts, the third publishes; two countdowns of two seconds
C31_Witness ==
    /\ retry.returned
    /\ retry.retry_delay = 2
    /\ retry.events = <<"failed", "sleep_1s", "sleep_1s", "failed", "sleep_1s", "sleep_1s",
                        "published">>

(***************************************************************************)
(* _click_element (SpecClick).                                             *)
(***************************************************************************)
\* C32 as stated: click returns true as soon as one strategy succeeds, returns
\* false only after the whole strategy list has been tried in each of the
\* attempts, and never raises.
C32_FalseOnlyAfterAllStrategies ==
    pub.done =>
        /\ ~pub.raised
        /\ pub.ok => (pub.tried >= 1 /\ pub.clicks[pub.tried] = "clicked"
                      /\ \A i \in 1..(pub.tried - 1) : pub.clicks[i] # "clicked")
        /\ ~pub.ok => pub.tried = ClickStrategies * ClickRetries

\* C32, amended: click returns true as soon as one strategy succeeds; it returns
\* false after the whole strategy list has been tried in each of the attempts,
\* or at once when the visibility check or a strategy finds the element stale;
\* it never raises.
C32_FalseAfterAllStrategiesOrStale ==
    pub.done =>
        /\ ~pub.raised
        /\ pub.ok => (pub.tried >= 1 /\ pub.clicks[pub.tried] = "clicked"
                      /\ \A i \in 1..(pub.tried - 1) : pub.clicks[i] # "clicked")
        /\ ~pub.ok =>
              \/ /\ pub.tried = ClickStrategies * ClickRetries
                 /\ \A i \in 1..Len(pub.clicks) :
                      pub.clicks[i] \notin {"clicked", "stale", "check_stale"}
              \/ /\ pub.tried <= Len(pub.clicks)
                 /\ pub.clicks[pub.tried] \in {"stale", "check_stale"}
                 /\ \A i \in 1..(pub.tried - 1) :
                      pub.clicks[i] \notin {"clicked", "stale", "check_stale"}

\* C32, witness: the visibility check raised, a strategy raised, and every
\* strategy of every attempt was tried before false was returned
C32_Witness ==
    /\ pub.op = "click"
    /\ pub.done
    /\ ~pub.ok
    /\ pub.tried = ClickStrategies * ClickRetries
    /\ \E i \in 1..Len(pub.clicks) : pub.clicks[i] = "check_raises"
    /\ \E i \in 1..Len(pub.clicks) : pub.clicks[i] = "raised_after"

(***************************************************************************)
(* Opening the long-article editor (SpecNavigate).                         *)
(***************************************************************************)
\* C33: in long_article mode, after the navigation to the article surface the
\* new-creation action is triggered only if no editor is present: when the page
\* already shows an editor, no click on a new-creation candidate is issued.
C33_NoNewCreationWhenEditorPresent ==
    (pub.op = "navigate" /\ pub.done /\ pub.editor) =>
        /\ pub.commands = 0
        /\ pub.delivered = 0

(***************************************************************************)
(* Interactive generation (SpecGenerate).                                  *)
(***************************************************************************)
\* the polls the ceiling allows
MaxPolls == (MaxWait + CheckInterval - 1) \div CheckInterval

\* the generation of the run has returned None
NothingGenerated == flow.pc # "none" /\ flow.gen.pc = "returned" /\ flow.gen.result = NoContent

\* what holds of the polling in every state
PollingInvariant ==
    flow.pc # "none" =>
        LET g == flow.gen
        IN  /\ g.waited = g.polls * CheckInterval
            /\ g.polls <= MaxPolls
            /\ (g.pc = "polling" /\ g.polls > 0) => g.last_len <= g.initial_count
            /\ (g.pc = "returned" /\ g.result # NoContent) =>
                  g.last_len > g.initial_count
            /\ (g.pc = "returned" /\ g.result = NoContent) =>
                  /\ g.last_len <= g.initial_count
                  /\ g.polls = MaxPolls \/ g.interrupted \/ g.polls = 0
            /\ (flow.pc = "done" /\ g.pc = "returned" /\ g.result = NoContent) =>
                  /\ flow.result = "false"
                  /\ flow.failedOp = "generate"
                  /\ flow.ops = <<"initialize", "generate">>
                  /\ Cardinality({i \in 1..Len(flow.steps) : flow.steps[i] = "failed"}) = 1

C35_ValidateAcceptsParagraphs ==
    (/\ vResult # NotCalled
     /\ body_paragraphs(vBody) > 1
     /\ StrLen(vBody) <= MaxBodyLen
     /\ StrLen(Strip(vTitle)) > 0
     /\ StrLen(vTitle) <= MaxTitleLen
     /\ ~ControlCharMatch(vTitle)
     /\ ~RepeatedCharMatch(Concat(vTitle, vBody))) => vResult.ok

(***************************************************************************)
(* What is handed to publish_with_retry (SpecFlow).                        *)
(***************************************************************************)
\* the step calls publish_with_retry in the workflow's publish handler
StepInvokesPublish == flow.pc = "publish" /\ flow.retried = "none" /\ flow'.retried # "none"

\* the step calls publish_with_retry in the publish endpoint
ApiInvokesPublish == last' # last /\ last'.op \in {"publish", "publishAbandoned"}

\* C36: publish_with_retry is invoked for a row only if, when it is invoked, the
\* row exists and its status is approved, in the workflow's publish step and in
\* the publish endpoint: a row that is pending, rejected, failed or published
\* is never posted.
C36_OnlyApprovedIsPublished ==
    [][/\ StepInvokesPublish =>
            /\ flow.content_id \in DOMAIN rows
            /\ rows[flow.content_id].status = "approved"
       /\ ApiInvokesPublish =>
            /\ last'.id \in DOMAIN rows
            /\ rows[last'.id].status = "approved"]_vars

\* C36, witness: the endpoint has published a row while another row of the store
\* is not approved
C36_Witness ==
    /\ last.op = "publish"
    /\ last.ok
    /\ rows[last.id].status = "published"
    /\ \E i \in DOMAIN rows : rows[i].status \in {"pending", "rejected", "failed"}

(***************************************************************************)
(* Published rows (Spec).                                                  *)
(***************************************************************************)
\* C37: published is absorbing: once a row is published, no approve, reject,
\* markFailed, retryFailed or markPublished call moves it to another status or
\* changes or clears its published_at.
C37_PublishedIsAbsorbing ==
    [][\A i \in DOMAIN rows \cap DOMAIN rows' :
          rows[i].status = "published" =>
              /\ rows'[i].status = "published"
              /\ rows'[i].published_at = rows[i].published_at]_vars

(***************************************************************************)
(* The row of a run at the end of the run (SpecFlow).                      *)
(***************************************************************************)
\* the step ends a run whose import stored a row and whose approval approved it:
\* the login handler is entered only after the approval handler returned True
EndsApprovedRun ==
    /\ flow.pc = "finally"
    /\ flow'.pc = "done"
    /\ flow.content_id # NoId
    /\ \E i \in 1..Len(flow.ops) : flow.ops[i] = "login"

C39_SuccessfulPublishNeverFailsRow ==
    (last.op \in {"publish", "publishAbandoned"} /\ last.returned)
        => rows[last.id].status # "failed"

====
